---- MODULE Spec2Model ----
(***************************************************************************)
(* Trust, Verification & Economy Engine of spotshunt-firebase-backend.     *)
(*                                                                         *)
(* The repository holds two builds of the Cloud Functions:                 *)
(*   "modular"  : index.js re-exporting xpManagement.js, spotVerification  *)
(*                .js (src/unnamed/part_002), spotReporting.js, ...        *)
(*   "monolith" : the single large index.js (src/unnamed/part_001).        *)
(* Functions that exist under the same name in both (awardXP,              *)
(* adjustUserXP, handleSpotVerificationUpdate) are selected by `build`;    *)
(* every other function is an operation of the program in both.            *)
(* Definitions taken from xpManagement.js carry the prefix xpm_.           *)
(*                                                                         *)
(* A Firestore document field that is absent (JS undefined) is modelled    *)
(* as 0 / "" / FALSE: every read in the code goes through `x || default`,  *)
(* which treats the absent field and the falsy value alike.                *)
(***************************************************************************)
EXTENDS Integers, Sequences, FiniteSets, TLC

\* ------------------------------------------------------------------ bounds
MaxProcs == 2
MaxCalls == 3

Procs == 1..MaxProcs

\* ------------------------------------------------------------------ inputs
\* u0 is an authenticated uid that has no users/{uid} document.
UserIds == {"u1", "u2", "u0"}
SpotIds == {"s1"}
ChallengeIds == {"c1"}
RewardIds == {"r1"}
\* sponsors/{sponsorId}; a sponsor's document id is its owner's uid
SponsorIds == {"sp1"}
\* rX is a well-formed reward id that names no rewards/{rewardId} document
ScannedIds == RewardIds \cup {"rX"}
Builds == {"modular", "monolith"}

VARIABLES
  build,           \* which build of the same-named functions is deployed
  users,           \* users/{userId}
  xpTransactions,  \* xpTransactions collection (the XP ledger), in commit order
  xpHistory,       \* number of documents in the top-level xpHistory collection
  userChallenges,  \* user_challenges/{userId}_{challengeId}
  spots,           \* spots/{spotId}
  events,          \* Firestore trigger events not yet handled (a bag)
  verificationLogs,\* number of documents in verificationLogs
  rewards,         \* rewards/{rewardId}
  redemptions,     \* users/{userId}/redemptions, in creation order
  sponsors,        \* sponsors/{sponsorId}
  spotReports,     \* spotReports collection, in creation order
  entropy,         \* number of values drawn from crypto.randomBytes
  proc,            \* in-flight callable / trigger invocations
  calls,           \* number of invocations started
  issued           \* history: awardUserXP invocations per user (count, sum)

\* the collections the XP callables never touch
nonXp == <<spots, events, verificationLogs, rewards, redemptions, sponsors, entropy,
           spotReports>>

vars == <<build, users, xpTransactions, xpHistory, userChallenges, nonXp, proc, calls, issued>>

\* ------------------------------------------------------------ JS helpers
\* a || b on numbers
JsOr(a, b) == IF a # 0 THEN a ELSE b
\* a || b on strings
JsOrStr(a, b) == IF a # "" THEN a ELSE b
Max_noClamp(a, b) == b
Max(a, b) == IF a >= b THEN a ELSE b
Min(a, b) == IF a <= b THEN a ELSE b

\* Math.floor(Math.sqrt(xp / 100)) for xp >= 0
FloorSqrtHundredth(xp) ==
  CHOOSE r \in 0..(xp + 1) : r * r * 100 <= xp /\ (r + 1) * (r + 1) * 100 > xp

\* xpManagement.js calculateLevel: floor(sqrt(xp/100)) + 1
xpm_calculateLevel(xp) == IF xp < 0 THEN 1 ELSE FloorSqrtHundredth(xp) + 1

\* index.js declares calculateLevel twice; the later declaration
\* (floor(xp/500)+1) is the one every call in that file resolves to.
calculateLevel(xp) == (xp \div 500) + 1

calculateXPLevel(xp) == (xp \div 500) + 1

\* An HttpsError as thrown by firebase-functions: code is the bare error
\* code ("already-exists"), written here as its '/'-separated segments.
HttpsError(code) == [ok |-> FALSE, code |-> <<code>>]
\* error.code.startsWith('functions/')
StartsWithFunctions(code) == Len(code) >= 2 /\ code[1] = "functions"

\* ------------------------------------------------------------ documents
\* trustScore is kept in hundredths (100 = 1.0)
\* badgeDefinitions/{badgeId}: one badge of each unlock type
BadgeDefinitions ==
  [b_xp |-> [unlockType |-> "xp", required |-> 100, milestoneType |-> ""],
   b_level |-> [unlockType |-> "level", required |-> 2, milestoneType |-> ""],
   b_spots |-> [unlockType |-> "milestone", required |-> 1,
                milestoneType |-> "spotsDiscovered"]]
BadgeIds == DOMAIN BadgeDefinitions
\* users/{userId}/badges/{badgeId}: earnedAt, 0 while the document is absent
NoBadges == [b \in BadgeIds |-> 0]

\* history: users/{userId}/xpHistory, a set of [action, awardedAt];
\* badges: users/{userId}/badges
NewUser == [exists |-> TRUE, xpPoints |-> 0, xp |-> 0, level |-> 1, xpPending |-> 0,
            spotsDiscovered |-> 0, challengesCompleted |-> 0,
            trustScore |-> 100, spotSubmissions |-> 0, spotApprovedCount |-> 0,
            spotRejectedCount |-> 0, isShadowBanned |-> FALSE,
            history |-> {}, badges |-> NoBadges]
NoUser == [exists |-> FALSE, xpPoints |-> 0, xp |-> 0, level |-> 0, xpPending |-> 0,
           spotsDiscovered |-> 0, challengesCompleted |-> 0,
           trustScore |-> 0, spotSubmissions |-> 0, spotApprovedCount |-> 0,
           spotRejectedCount |-> 0, isShadowBanned |-> FALSE,
           history |-> {}, badges |-> NoBadges]

LedgerEntry(userId, action, amount, type, spotId, challengeId, previousXP, newXP) ==
  [userId |-> userId, action |-> action, amount |-> amount, type |-> type,
   spotId |-> spotId, challengeId |-> challengeId,
   previousXP |-> previousXP, newXP |-> newXP]

Statuses == {"PENDING", "AUTO_APPROVED", "APPROVED", "REJECTED", "FLAGGED"}

\* xpReward 0: the field is absent (afterData.xpReward || 100)
NoSpot == [exists |-> FALSE, verificationStatus |-> "", createdBy |-> "", xpReward |-> 0,
           xpReleased |-> FALSE, xpDenied |-> FALSE, reasons |-> "",
           likes |-> {}, likeCount |-> 0]

\* trigger events: a created spot, or a spot update that changed the
\* verification status (the handlers return at once on any other update)
Events == [kind : {"create"}, spot : SpotIds, before : {""}, after : {"PENDING"}]
          \cup [kind : {"update"}, spot : SpotIds, before : Statuses, after : Statuses]
EmptyBag == [e \in Events |-> 0]
Emit(bag, e) == [bag EXCEPT ![e] = @ + 1]
Take(bag, e) == [bag EXCEPT ![e] = @ - 1]
StatusChange(s, before, after) == [kind |-> "update", spot |-> s, before |-> before, after |-> after]
\* events after spot s went from status `before` to status `after`
EmitChange(bag, s, before, after) ==
  IF before = after THEN bag ELSE Emit(bag, StatusChange(s, before, after))

\* A QR string. A sponsor code is the base64 of {v, sid, ts, nonce, sig}; the
\* HMAC-SHA256 signature is written as the key and the signed fields (no
\* collisions). ts (Date.now()) is left out: nothing reads it back.
SignedQr(v, sid, nonce, secret) ==
  [v |-> v, sid |-> sid, nonce |-> nonce, sig |-> <<secret, v, sid, nonce>>]
NoQr == [v |-> 0, sid |-> "", nonce |-> 0, sig |-> <<>>]
\* rewards/{r}.qrCode: a string stored with the reward; no function writes it
RewardQr(r) == [v |-> 0, sid |-> r, nonce |-> 0, sig |-> <<>>]

\* qrSecret 0, qrVersion 0: the field is absent
InitialSponsor(s) == [exists |-> TRUE, ownerUserId |-> s, qrSecret |-> 0, qrVersion |-> 0,
                      lastQrNonce |-> 0]
NoSponsor == [exists |-> FALSE, ownerUserId |-> "", qrSecret |-> 0, qrVersion |-> 0,
              lastQrNonce |-> 0]

RewardXpRequired == 100
RewardMaxRedemptions == 1
\* xpRequired 0: a free reward (reward.xpRequired || 0)
InitialReward(xpRequired) ==
  [exists |-> TRUE, active |-> TRUE, expired |-> FALSE, xpRequired |-> xpRequired,
   maxRedemptions |-> RewardMaxRedemptions, currentRedemptions |-> 0,
   sponsorId |-> "sp1", qrCode |-> RewardQr("r1")]
NoReward == [exists |-> FALSE, active |-> FALSE, expired |-> FALSE, xpRequired |-> 0,
             maxRedemptions |-> 0, currentRedemptions |-> 0, sponsorId |-> "",
             qrCode |-> NoQr]

\* a check's result {score, reasons, flags}: reasons are left out, flags are
\* the set of the tags pushed
CheckResult(score, flags) == [score |-> score, flags |-> flags]
\* the verificationResult under construction; facts (history): what the
\* scored spot and the collections read were like
NoResult == [location |-> CheckResult(0, {}), photo |-> CheckResult(0, {}),
             duplicate |-> CheckResult(0, {}), trust |-> CheckResult(0, {}),
             content |-> CheckResult(0, {}),
             score |-> 0, flags |-> {}, status |-> "", facts |-> {}]

NoRet == [ok |-> TRUE, code |-> <<"none">>]
Ok(code) == [ok |-> TRUE, code |-> <<code>>]

\* no spot document at hand
NoSpotData == [id |-> ""]
Idle == [op |-> "none", pc |-> "idle", caller |-> "", user |-> "", action |-> "",
         amount |-> 0, spotId |-> "", challengeId |-> "", reward |-> "",
         n |-> 0, snap |-> NoUser, stale |-> FALSE, saw |-> FALSE, ret |-> NoRet,
         note |-> "", qr |-> NoQr, sponsor |-> NoSponsor, vr |-> NoResult,
         spotData |-> NoSpotData, collection |-> {}, pending |-> {}]

\* adminUsers/{uid} with role ADMIN and isActive, or admins/{uid}
AdminUids == {"admin"}
checkIsAdmin_everyone(uid) == TRUE
checkIsAdmin(uid) == uid \in AdminUids
\* history: the capability of the caller of an admin-only function
CallerClass(caller) ==
  IF caller = "" THEN "anonymous"
  ELSE IF caller \in AdminUids THEN "admin" ELSE "non-admin"
checkAdminPermissions(uid) == uid \in AdminUids

\* ------------------------------------------------------------ transactions
\* db.runTransaction: the commit fails and the body is run again when a
\* document read by the transaction was written after the read.
InTxOn(q, u) == proc[q].pc = "tx_commit" /\ proc[q].user = u
TxConflict_lostUpdate(p) == FALSE
TxConflict(p) == proc[p].stale

\* proc after p moved to record r and users/{u} was written by p.
AfterWrite(p, r, u) ==
  [q \in Procs |->
     IF q = p THEN r
     ELSE IF InTxOn(q, u) THEN [proc[q] EXCEPT !.stale = TRUE]
     ELSE proc[q]]

\* the invocation returned: only its name, its result and the note of what it
\* met (history) are kept
Finish(p, ret) == [Idle EXCEPT !.op = proc[p].op, !.ret = ret, !.note = proc[p].note]
Return(op, ret) == [Idle EXCEPT !.op = op, !.ret = ret]

Start(p) ==
  /\ proc[p].pc = "idle"
  /\ calls < MaxCalls
  /\ calls' = calls + 1

\* a failed commit: the transaction body is run again
TxRetry(p) ==
  /\ proc[p].pc = "tx_commit"
  /\ TxConflict(p)
  /\ proc' = [proc EXCEPT ![p] = [@ EXCEPT !.pc = "tx_get", !.stale = FALSE]]
  /\ UNCHANGED <<nonXp, build, users, xpTransactions, xpHistory, userChallenges, calls, issued>>

\* ------------------------------------------------------------ xpManagement.js
\* MAX_XP_AMOUNTS[action] || 100
xpm_MaxXpAmount(action) ==
  CASE action = "VISIT_SPOT" -> 50
    [] action = "RATE_SPOT" -> 25
    [] action = "COMPLETE_CHALLENGE" -> 200
    [] action = "DAILY_LOGIN" -> 10
    [] action = "SHARE_SPOT" -> 15
    [] action = "PHOTO_UPLOAD" -> 30
    [] OTHER -> 100

\* checkForDuplicateAward: an AWARD entry with this userId, action and
\* spotId == resourceId
checkForDuplicateAward(userId, action, resourceId) ==
  \E i \in DOMAIN xpTransactions :
     /\ xpTransactions[i].userId = userId
     /\ xpTransactions[i].action = action
     /\ xpTransactions[i].spotId = resourceId
     /\ xpTransactions[i].type = "AWARD"

\* awardXP up to and including the duplicate query (its first await).
xpm_awardXP(p, uid, action, amount, spotId, challengeId) ==
  /\ build = "modular"
  /\ Start(p)
  /\ LET r == [Idle EXCEPT !.op = "xpm_awardXP", !.caller = uid, !.user = uid,
                           !.action = action, !.amount = amount,
                           !.spotId = spotId, !.challengeId = challengeId]
         resourceId == JsOrStr(spotId, challengeId)
     IN
       IF action = "" \/ amount <= 0 \/ amount > xpm_MaxXpAmount(action)
       THEN /\ proc' = [proc EXCEPT ![p] = Return("xpm_awardXP", HttpsError("invalid-argument"))]
            /\ UNCHANGED issued
       ELSE IF resourceId # "" /\ checkForDuplicateAward(uid, action, resourceId)
       THEN /\ proc' = [proc EXCEPT ![p] = Return("xpm_awardXP", [ok |-> FALSE, code |-> <<"Already awarded">>])]
            /\ UNCHANGED issued
       ELSE /\ proc' = [proc EXCEPT ![p] = [r EXCEPT !.pc = "tx_get"]]
            /\ issued' = IF users[uid].exists
                         THEN [issued EXCEPT ![uid] = [n |-> @.n + 1, sum |-> @.sum + amount]]
                         ELSE issued
  /\ UNCHANGED <<nonXp, build, users, xpTransactions, xpHistory, userChallenges>>

\* awardUserXP: transaction.get(userRef)
xpm_awardUserXP_get(p) ==
  /\ proc[p].pc = "tx_get"
  /\ proc[p].op = "xpm_awardXP"
  /\ LET u == proc[p].user IN
       IF ~users[u].exists
       THEN \* Error("User not found") -> awardXP's catch -> internal
            proc' = [proc EXCEPT ![p] =
              [Finish(p, HttpsError("internal")) EXCEPT !.note = "user-absent"]]
       ELSE proc' = [proc EXCEPT ![p] = [@ EXCEPT !.pc = "tx_commit",
                                                  !.snap = users[u], !.stale = FALSE]]
  /\ UNCHANGED <<nonXp, build, users, xpTransactions, xpHistory, userChallenges, calls, issued>>

\* awardUserXP: commit of transaction.update + transaction.create
xpm_awardUserXP_commit(p) ==
  /\ proc[p].pc = "tx_commit"
  /\ proc[p].op = "xpm_awardXP"
  /\ ~TxConflict(p)
  /\ LET u == proc[p].user
         action == proc[p].action
         amount == proc[p].amount
         userData == proc[p].snap
         currentXP == JsOr(userData.xpPoints, 0)
         newTotalXP == currentXP + amount
         newLevel == xpm_calculateLevel(newTotalXP)
     IN
       /\ users' = [users EXCEPT ![u] =
            [@ EXCEPT !.xpPoints = newTotalXP,
                      !.level = newLevel,
                      !.spotsDiscovered =
                         IF action = "VISIT_SPOT"
                         THEN JsOr(userData.spotsDiscovered, 0) + 1 ELSE @,
                      !.challengesCompleted =
                         IF action = "COMPLETE_CHALLENGE"
                         THEN JsOr(userData.challengesCompleted, 0) + 1 ELSE @]]
       /\ xpTransactions' = Append(xpTransactions,
            LedgerEntry(u, action, amount, "AWARD", proc[p].spotId,
                        proc[p].challengeId, currentXP, newTotalXP))
       /\ proc' = AfterWrite(p, Finish(p, Ok("success")), u)
  /\ UNCHANGED <<nonXp, build, xpHistory, userChallenges, calls, issued>>

\* adjustUserXP (xpManagement.js) up to the transaction
xpm_adjustUserXP(p, caller, userId, adjustment) ==
  /\ build = "modular"
  /\ Start(p)
  /\ proc' = [proc EXCEPT ![p] =
       [IF caller = "" THEN Return("xpm_adjustUserXP", HttpsError("unauthenticated"))
        ELSE IF ~checkAdminPermissions(caller)
        THEN Return("xpm_adjustUserXP", HttpsError("permission-denied"))
        ELSE IF userId = "" \/ adjustment = 0
        THEN Return("xpm_adjustUserXP", HttpsError("invalid-argument"))
        ELSE [Idle EXCEPT !.op = "xpm_adjustUserXP", !.pc = "tx_get", !.caller = caller,
                          !.user = userId, !.amount = adjustment]
          EXCEPT !.note = CallerClass(caller), !.user = userId]]
  /\ UNCHANGED <<nonXp, build, users, xpTransactions, xpHistory, userChallenges, issued>>

xpm_adjustUserXP_get(p) ==
  /\ proc[p].pc = "tx_get"
  /\ proc[p].op = "xpm_adjustUserXP"
  /\ LET u == proc[p].user IN
       IF ~users[u].exists
       THEN \* HttpsError("not-found") -> the outer catch -> internal
            proc' = [proc EXCEPT ![p] = Finish(p, HttpsError("internal"))]
       ELSE proc' = [proc EXCEPT ![p] = [@ EXCEPT !.pc = "tx_commit",
                                                  !.snap = users[u], !.stale = FALSE]]
  /\ UNCHANGED <<nonXp, build, users, xpTransactions, xpHistory, userChallenges, calls, issued>>

xpm_adjustUserXP_commit(p) ==
  /\ proc[p].pc = "tx_commit"
  /\ proc[p].op = "xpm_adjustUserXP"
  /\ ~TxConflict(p)
  /\ LET u == proc[p].user
         adjustment == proc[p].amount
         currentXP == JsOr(proc[p].snap.xpPoints, 0)
         newXP == Max(0, currentXP + adjustment)
         newLevel == xpm_calculateLevel(newXP)
     IN
       /\ users' = [users EXCEPT ![u] = [@ EXCEPT !.xpPoints = newXP, !.level = newLevel]]
       /\ xpTransactions' = Append(xpTransactions,
            LedgerEntry(u, "ADMIN_ADJUSTMENT", adjustment, "ADMIN", "", "", currentXP, newXP))
       /\ proc' = AfterWrite(p, Finish(p, Ok("success")), u)
  /\ UNCHANGED <<nonXp, build, xpHistory, userChallenges, calls, issued>>

\* ------------------------------------------------------------ index.js (monolith)
\* adjustUserXP up to the transaction
adjustUserXP(p, caller, userId, xpAmount, type) ==
  /\ build = "monolith"
  /\ Start(p)
  /\ proc' = [proc EXCEPT ![p] =
       [IF caller = "" THEN Return("adjustUserXP", HttpsError("unauthenticated"))
        ELSE IF userId = ""
        THEN Return("adjustUserXP", HttpsError("invalid-argument"))
        ELSE IF ~checkIsAdmin(caller)
        THEN \* thrown inside try; error.code is set, so it is re-thrown as is
             Return("adjustUserXP", HttpsError("permission-denied"))
        ELSE [Idle EXCEPT !.op = "adjustUserXP", !.pc = "tx_get", !.caller = caller,
                          !.user = userId, !.amount = xpAmount, !.action = type]
          EXCEPT !.note = CallerClass(caller), !.user = userId]]
  /\ UNCHANGED <<nonXp, build, users, xpTransactions, xpHistory, userChallenges, issued>>

adjustUserXP_get(p) ==
  /\ proc[p].pc = "tx_get"
  /\ proc[p].op = "adjustUserXP"
  /\ LET u == proc[p].user IN
       IF ~users[u].exists
       THEN proc' = [proc EXCEPT ![p] = Finish(p, HttpsError("not-found"))]
       ELSE proc' = [proc EXCEPT ![p] = [@ EXCEPT !.pc = "tx_commit",
                                                  !.snap = users[u], !.stale = FALSE]]
  /\ UNCHANGED <<nonXp, build, users, xpTransactions, xpHistory, userChallenges, calls, issued>>

adjustUserXP_commit(p) ==
  /\ proc[p].pc = "tx_commit"
  /\ proc[p].op = "adjustUserXP"
  /\ ~TxConflict(p)
  /\ LET u == proc[p].user
         xpAmount == proc[p].amount
         userData == proc[p].snap
         currentXP == JsOr(userData.xpPoints, JsOr(userData.xp, 0))
         newXP == Max(0, currentXP + xpAmount)
         newLevel == calculateXPLevel(newXP)
     IN
       /\ users' = [users EXCEPT ![u] =
            [@ EXCEPT !.xpPoints = newXP, !.xp = newXP, !.level = newLevel]]
       /\ xpTransactions' = Append(xpTransactions,
            LedgerEntry(u, "ADMIN_ADJUSTMENT", xpAmount, proc[p].action, "", "",
                        currentXP, newXP))
       /\ proc' = AfterWrite(p, Finish(p, Ok("success")), u)
  /\ UNCHANGED <<nonXp, build, xpHistory, userChallenges, calls, issued>>

\* adminGrantXP up to and including userRef.get(); no admin check is made
adminGrantXP(p, caller, userId, xpAmount) ==
  /\ Start(p)
  /\ proc' = [proc EXCEPT ![p] =
       IF caller = "" THEN Return("adminGrantXP", HttpsError("unauthenticated"))
       ELSE IF userId = "" \/ xpAmount <= 0
       THEN Return("adminGrantXP", HttpsError("invalid-argument"))
       ELSE IF ~users[userId].exists
       THEN Return("adminGrantXP", HttpsError("not-found"))
       ELSE [Idle EXCEPT !.op = "adminGrantXP", !.pc = "update", !.caller = caller,
                         !.user = userId, !.amount = xpAmount, !.snap = users[userId]]]
  /\ UNCHANGED <<nonXp, build, users, xpTransactions, xpHistory, userChallenges, issued>>

\* adminGrantXP: userRef.update, outside any transaction; no ledger entry
adminGrantXP_update(p) ==
  /\ proc[p].pc = "update"
  /\ proc[p].op = "adminGrantXP"
  /\ LET u == proc[p].user
         userData == proc[p].snap
         currentXP == JsOr(userData.xpPoints, JsOr(userData.xp, 0))
         newXP == currentXP + proc[p].amount
     IN
       /\ users' = [users EXCEPT ![u] = [@ EXCEPT !.xpPoints = newXP, !.xp = newXP]]
       /\ proc' = AfterWrite(p, Finish(p, Ok("success")), u)
  /\ UNCHANGED <<nonXp, build, xpTransactions, xpHistory, userChallenges, calls, issued>>

\* awardXP (index.js): any authenticated caller, any target user
awardXP(p, caller, userId, amount) ==
  /\ build = "monolith"
  /\ Start(p)
  /\ proc' = [proc EXCEPT ![p] =
       IF caller = "" THEN Return("awardXP", HttpsError("unauthenticated"))
       ELSE IF userId = "" \/ amount <= 0
       THEN Return("awardXP", HttpsError("invalid-argument"))
       ELSE [Idle EXCEPT !.op = "awardXP", !.pc = "tx_get", !.caller = caller,
                         !.user = userId, !.amount = amount]]
  /\ UNCHANGED <<nonXp, build, users, xpTransactions, xpHistory, userChallenges, issued>>

awardXP_get(p) ==
  /\ proc[p].pc = "tx_get"
  /\ proc[p].op = "awardXP"
  /\ LET u == proc[p].user IN
       IF ~users[u].exists
       THEN \* Error('User not found') -> catch -> internal
            proc' = [proc EXCEPT ![p] =
              [Finish(p, HttpsError("internal")) EXCEPT !.note = "user-absent"]]
       ELSE proc' = [proc EXCEPT ![p] = [@ EXCEPT !.pc = "tx_commit",
                                                  !.snap = users[u], !.stale = FALSE]]
  /\ UNCHANGED <<nonXp, build, users, xpTransactions, xpHistory, userChallenges, calls, issued>>

\* awardXP: writes users.xp and level, and one xpHistory document
awardXP_commit(p) ==
  /\ proc[p].pc = "tx_commit"
  /\ proc[p].op = "awardXP"
  /\ ~TxConflict(p)
  /\ LET u == proc[p].user
         currentXP == JsOr(proc[p].snap.xp, 0)
         newXP == currentXP + proc[p].amount
         newLevel == calculateLevel(newXP)
     IN
       /\ users' = [users EXCEPT ![u] = [@ EXCEPT !.xp = newXP, !.level = newLevel]]
       /\ xpHistory' = xpHistory + 1
       /\ proc' = AfterWrite(p, Finish(p, Ok("success")), u)
  /\ UNCHANGED <<nonXp, build, xpTransactions, userChallenges, calls, issued>>

\* challenges/{challengeId}: targetValue and xpReward
ChallengeTarget == 1
ChallengeXpReward == 150

\* updateServerChallengeProgress up to and including progressRef.get()
updateServerChallengeProgress(p, userId, challengeId, progress) ==
  /\ Start(p)
  /\ proc' = [proc EXCEPT ![p] =
       [Idle EXCEPT !.op = "updateServerChallengeProgress", !.pc = "progress_set",
                    !.user = userId, !.challengeId = challengeId, !.amount = progress,
                    !.saw = userChallenges[<<userId, challengeId>>].completed,
                    !.n = userChallenges[<<userId, challengeId>>].currentProgress]]
  /\ UNCHANGED <<nonXp, build, users, xpTransactions, xpHistory, userChallenges, issued>>

\* progressRef.set(updatedProgress)
updateServerChallengeProgress_set(p) ==
  /\ proc[p].pc = "progress_set"
  /\ LET u == proc[p].user
         c == proc[p].challengeId
         newProgress == Min(JsOr(proc[p].n, 0) + proc[p].amount, ChallengeTarget)
         isCompleted == newProgress >= ChallengeTarget
     IN
       /\ userChallenges' = [userChallenges EXCEPT ![<<u, c>>] =
            [currentProgress |-> newProgress, completed |-> isCompleted]]
       /\ proc' = [proc EXCEPT ![p] =
            IF isCompleted /\ ~proc[p].saw
            THEN [@ EXCEPT !.pc = "user_get"]
            ELSE Finish(p, Ok("true"))]
  /\ UNCHANGED <<nonXp, build, users, xpTransactions, xpHistory, calls, issued>>

\* challenge just completed: userRef.get()
updateServerChallengeProgress_get(p) ==
  /\ proc[p].pc = "user_get"
  /\ LET u == proc[p].user IN
       proc' = [proc EXCEPT ![p] =
         IF users[u].exists
         THEN [@ EXCEPT !.pc = "update", !.snap = users[u]]
         ELSE Finish(p, Ok("true"))]
  /\ UNCHANGED <<nonXp, build, users, xpTransactions, xpHistory, userChallenges, calls, issued>>

\* the challenge-completion award: userRef.update outside any transaction
updateServerChallengeProgress_update(p) ==
  /\ proc[p].pc = "update"
  /\ proc[p].op = "updateServerChallengeProgress"
  /\ LET u == proc[p].user
         userData == proc[p].snap
         currentXp == JsOr(userData.xpPoints, JsOr(userData.xp, 0))
         newXp == currentXp + ChallengeXpReward
     IN
       /\ users' = [users EXCEPT ![u] = [@ EXCEPT !.xpPoints = newXp, !.xp = newXp]]
       /\ proc' = AfterWrite(p, Finish(p, Ok("true")), u)
  /\ UNCHANGED <<nonXp, build, xpTransactions, xpHistory, userChallenges, calls, issued>>

\* ------------------------------------------------------------ spots
\* what the spot actions leave alone
spotRest == <<xpHistory, userChallenges, rewards, redemptions, sponsors, entropy, issued,
              spotReports>>

\* a client creates spots/{spotId} with status PENDING
createSpot(s, u) ==
  /\ ~spots[s].exists
  /\ calls < MaxCalls
  /\ calls' = calls + 1
  /\ spots' = [spots EXCEPT ![s] = [NoSpot EXCEPT !.exists = TRUE, !.createdBy = u,
                                                  !.verificationStatus = "PENDING"]]
  /\ events' = Emit(events, [kind |-> "create", spot |-> s, before |-> "", after |-> "PENDING"])
  /\ UNCHANGED <<build, users, xpTransactions, verificationLogs, proc, spotRest>>

\* the statuses performSpotVerification decides on
VerificationOutcomes == {"AUTO_APPROVED", "FLAGGED", "PENDING"}

\* verifySpotSubmissionNew (spotVerification.js) up to the result of
\* performSpotVerification, which reads only; outcome "error": it threw
verifySpotSubmissionNew(p, e, outcome) ==
  /\ proc[p].pc = "idle"
  /\ e.kind = "create"
  /\ events[e] > 0
  /\ events' = Take(events, e)
  /\ proc' = [proc EXCEPT ![p] =
       IF e.after # "PENDING"
       THEN Return("verifySpotSubmissionNew", Ok("already processed"))
       ELSE [Idle EXCEPT !.op = "verifySpotSubmissionNew",
                         !.pc = IF outcome = "error" THEN "error_update" ELSE "spot_update",
                         !.spotId = e.spot, !.user = spots[e.spot].createdBy,
                         !.action = outcome,
                         \* history: an earlier run had stored its decision
                         !.saw = (spots[e.spot].reasons = "scored")]]
  /\ UNCHANGED <<build, users, xpTransactions, spots, verificationLogs, calls, spotRest>>

\* the creation event of spot s is delivered once more (Firestore triggers
\* are delivered at least once); event.data is the document as created
redeliverCreated(s) ==
  /\ spots[s].exists
  /\ calls < MaxCalls
  /\ calls' = calls + 1
  /\ events' = Emit(events, [kind |-> "create", spot |-> s, before |-> "", after |-> "PENDING"])
  /\ UNCHANGED <<build, users, xpTransactions, spots, verificationLogs, proc, spotRest>>

\* updateSpotVerification: the spot update
updateSpotVerification(p) ==
  /\ proc[p].pc = "spot_update"
  /\ LET s == proc[p].spotId
         status == proc[p].action
     IN
       /\ spots' = [spots EXCEPT ![s] =
            [@ EXCEPT !.verificationStatus = status,
                      !.reasons = "scored",
                      !.xpReleased = IF status = "AUTO_APPROVED" THEN TRUE ELSE @]]
       /\ events' = EmitChange(events, s, spots[s].verificationStatus, status)
       /\ proc' = [proc EXCEPT ![p] = [@ EXCEPT !.pc = "log_add"]]
  /\ UNCHANGED <<build, users, xpTransactions, verificationLogs, calls, spotRest>>

\* updateSpotVerification: verificationLogs.add; fails: the write threw
updateSpotVerification_log(p, fails) ==
  /\ proc[p].pc = "log_add"
  /\ IF fails
     THEN /\ proc' = [proc EXCEPT ![p] = [@ EXCEPT !.pc = "error_update"]]
          /\ UNCHANGED verificationLogs
     ELSE /\ proc' = [proc EXCEPT ![p] = [@ EXCEPT !.pc = "tx_get"]]
          /\ verificationLogs' = verificationLogs + 1
  /\ UNCHANGED <<build, users, xpTransactions, spots, events, calls, spotRest>>

\* updateUserTrustScore: transaction.get(userRef)
updateUserTrustScore_get(p) ==
  /\ proc[p].pc = "tx_get"
  /\ proc[p].op \in {"verifySpotSubmissionNew", "updateUserTrustScore"}
  /\ LET u == proc[p].user IN
       proc' = [proc EXCEPT ![p] =
         IF ~users[u].exists
         THEN Finish(p, Ok("done"))
         ELSE [@ EXCEPT !.pc = "tx_commit", !.snap = users[u], !.stale = FALSE,
                        \* history: whether the transaction body ran more than once
                        !.note = IF @ = "" THEN "read" ELSE "read-again"]]
  /\ UNCHANGED <<build, users, xpTransactions, spots, events, verificationLogs, calls, spotRest>>

ShadowBanRejectionTenths == 7

\* updateUserTrustScore: commit of transaction.update
updateUserTrustScore_commit(p) ==
  /\ proc[p].pc = "tx_commit"
  /\ proc[p].op \in {"verifySpotSubmissionNew", "updateUserTrustScore"}
  /\ ~TxConflict(p)
  /\ LET u == proc[p].user
         status == proc[p].action
         userData == proc[p].snap
         currentTrust == JsOr(userData.trustScore, 100)
         submissions == JsOr(userData.spotSubmissions, 0)
         approved == JsOr(userData.spotApprovedCount, 0)
         rejected == JsOr(userData.spotRejectedCount, 0)
         newApproved == IF status = "AUTO_APPROVED" THEN approved + 1 ELSE approved
         newRejected == IF status = "REJECTED" THEN rejected + 1 ELSE rejected
         newTrust == IF status = "AUTO_APPROVED" THEN Min(100, currentTrust + 2)
                     ELSE IF status = "REJECTED" THEN Max(0, currentTrust - 5)
                     ELSE currentTrust
         totalAfterUpdate == submissions + 1
         ban == totalAfterUpdate >= 5
                /\ newRejected * 10 >= ShadowBanRejectionTenths * totalAfterUpdate
     IN
       /\ users' = [users EXCEPT ![u] =
            [@ EXCEPT !.spotSubmissions = submissions + 1,
                      !.spotApprovedCount = newApproved,
                      !.spotRejectedCount = newRejected,
                      !.trustScore = newTrust,
                      !.isShadowBanned = IF ban THEN TRUE ELSE @]]
       /\ proc' = AfterWrite(p, Finish(p, Ok("done")), u)
  /\ UNCHANGED <<build, xpTransactions, spots, events, verificationLogs, calls, spotRest>>

\* verifySpotSubmissionNew's catch: the spot is put back to PENDING
verifySpotSubmissionNew_catch(p) ==
  /\ proc[p].pc = "error_update"
  /\ LET s == proc[p].spotId IN
       /\ spots' = [spots EXCEPT ![s] =
            [@ EXCEPT !.verificationStatus = "PENDING",
                      !.reasons = "error_during_verification"]]
       /\ events' = EmitChange(events, s, spots[s].verificationStatus, "PENDING")
       /\ proc' = [proc EXCEPT ![p] = Finish(p, Ok("done"))]
  /\ UNCHANGED <<build, users, xpTransactions, verificationLogs, calls, spotRest>>

\* verifySpotSubmission (admin callable): permission check and the
\* transaction on the spot, which commits as one atomic unit.  After the
\* commit the handler reads spotData, a name declared only inside the
\* transaction callback: the ReferenceError is reported as internal.
verifySpotSubmission(p, caller, s, approved) ==
  /\ Start(p)
  /\ LET status == IF approved THEN "APPROVED" ELSE "REJECTED"
         fails ==
           IF caller = "" THEN "unauthenticated"
           ELSE IF s = "" THEN "invalid-argument"
           ELSE IF ~checkIsAdmin(caller) THEN "permission-denied"
           ELSE IF ~spots[s].exists THEN "not-found"
           ELSE IF spots[s].verificationStatus \in {"APPROVED", "REJECTED"}
           THEN "already-exists"
           ELSE ""
     IN
       IF fails # ""
       THEN /\ proc' = [proc EXCEPT ![p] = Return("verifySpotSubmission", HttpsError(fails))]
            /\ UNCHANGED <<spots, events, verificationLogs>>
       ELSE /\ spots' = [spots EXCEPT ![s] = [@ EXCEPT !.verificationStatus = status]]
            /\ verificationLogs' = verificationLogs + 1
            /\ events' = EmitChange(events, s, spots[s].verificationStatus, status)
            /\ proc' = [proc EXCEPT ![p] = Return("verifySpotSubmission", HttpsError("internal"))]
  /\ UNCHANGED <<build, users, xpTransactions, spotRest>>

\* handleSpotVerificationUpdate (xpManagement.js) up to its first await
xpm_handleSpotVerificationUpdate(p, e) ==
  /\ build = "modular"
  /\ proc[p].pc = "idle"
  /\ e.kind = "update"
  /\ events[e] > 0
  /\ events' = Take(events, e)
  /\ LET s == e.spot
         newStatus == e.after
         r == [Idle EXCEPT !.op = "xpm_handleSpotVerificationUpdate", !.spotId = s,
                           !.user = spots[s].createdBy,
                           !.amount = JsOr(spots[s].xpReward, 100),
                           !.action = newStatus]
     IN
       proc' = [proc EXCEPT ![p] =
         IF e.before = e.after THEN Return("xpm_handleSpotVerificationUpdate", Ok("done"))
         ELSE IF newStatus \in {"AUTO_APPROVED", "APPROVED"} THEN [r EXCEPT !.pc = "tx_get"]
         ELSE IF newStatus = "REJECTED" THEN [r EXCEPT !.pc = "log_denial"]
         ELSE Return("xpm_handleSpotVerificationUpdate", Ok("done"))]
  /\ UNCHANGED <<build, users, xpTransactions, spots, verificationLogs, calls, spotRest>>

\* releaseSpotXP: transaction.get(userRef)
xpm_releaseSpotXP_get(p) ==
  /\ proc[p].pc = "tx_get"
  /\ proc[p].op = "xpm_handleSpotVerificationUpdate"
  /\ LET u == proc[p].user IN
       proc' = [proc EXCEPT ![p] =
         IF ~users[u].exists
         THEN \* Error("User not found"), logged by the handler's catch
              Finish(p, Ok("error logged"))
         ELSE [@ EXCEPT !.pc = "tx_commit", !.snap = users[u], !.stale = FALSE]]
  /\ UNCHANGED <<build, users, xpTransactions, spots, events, verificationLogs, calls, spotRest>>

\* releaseSpotXP: commit of transaction.update + transaction.create
xpm_releaseSpotXP_commit(p) ==
  /\ proc[p].pc = "tx_commit"
  /\ proc[p].op = "xpm_handleSpotVerificationUpdate"
  /\ ~TxConflict(p)
  /\ LET u == proc[p].user
         amount == proc[p].amount
         currentXP == JsOr(proc[p].snap.xpPoints, 0)
         pendingXP == JsOr(proc[p].snap.xpPending, 0)
         newTotalXP == currentXP + amount
         newPendingXP == Max(0, pendingXP - amount)
         newLevel == xpm_calculateLevel(newTotalXP)
     IN
       /\ users' = [users EXCEPT ![u] =
            [@ EXCEPT !.xpPoints = newTotalXP, !.xpPending = newPendingXP,
                      !.level = newLevel]]
       /\ xpTransactions' = Append(xpTransactions,
            LedgerEntry(u, "SPOT_APPROVED", amount, "AWARD", proc[p].spotId, "",
                        currentXP, newTotalXP))
       /\ proc' = AfterWrite(p, [proc[p] EXCEPT !.pc = "spot_mark", !.stale = FALSE], u)
  /\ UNCHANGED <<build, spots, events, verificationLogs, calls, spotRest>>

\* the handler marks the spot: xpReleased = true
xpm_markXpReleased(p) ==
  /\ proc[p].pc = "spot_mark"
  /\ spots' = [spots EXCEPT ![proc[p].spotId] = [@ EXCEPT !.xpReleased = TRUE]]
  /\ proc' = [proc EXCEPT ![p] = Finish(p, Ok("done"))]
  /\ UNCHANGED <<build, users, xpTransactions, events, verificationLogs, calls, spotRest>>

\* logXPDenial: a DENIAL entry of -amount; the user document is not touched
xpm_logXPDenial(p) ==
  /\ proc[p].pc = "log_denial"
  /\ xpTransactions' = Append(xpTransactions,
       LedgerEntry(proc[p].user, "SPOT_REJECTED", 0 - proc[p].amount, "DENIAL",
                   proc[p].spotId, "", 0, 0))
  /\ proc' = [proc EXCEPT ![p] = [@ EXCEPT !.pc = "spot_mark_denied"]]
  /\ UNCHANGED <<build, users, spots, events, verificationLogs, calls, spotRest>>

\* the handler marks the spot: xpDenied = true
xpm_markXpDenied(p) ==
  /\ proc[p].pc = "spot_mark_denied"
  /\ spots' = [spots EXCEPT ![proc[p].spotId] = [@ EXCEPT !.xpDenied = TRUE]]
  /\ proc' = [proc EXCEPT ![p] = Finish(p, Ok("done"))]
  /\ UNCHANGED <<build, users, xpTransactions, events, verificationLogs, calls, spotRest>>

\* handleSpotVerificationUpdate (index.js) up to its transaction
handleSpotVerificationUpdate(p, e) ==
  /\ build = "monolith"
  /\ proc[p].pc = "idle"
  /\ e.kind = "update"
  /\ events[e] > 0
  /\ events' = Take(events, e)
  /\ proc' = [proc EXCEPT ![p] =
       IF e.before # e.after /\ e.after = "APPROVED" /\ e.before # "APPROVED"
       THEN [Idle EXCEPT !.op = "handleSpotVerificationUpdate", !.pc = "tx_get",
                         !.spotId = e.spot, !.user = spots[e.spot].createdBy,
                         !.amount = 100]
       ELSE Return("handleSpotVerificationUpdate", Ok("null"))]
  /\ UNCHANGED <<build, users, xpTransactions, spots, verificationLogs, calls, spotRest>>

handleSpotVerificationUpdate_get(p) ==
  /\ proc[p].pc = "tx_get"
  /\ proc[p].op = "handleSpotVerificationUpdate"
  /\ LET u == proc[p].user IN
       proc' = [proc EXCEPT ![p] =
         IF ~users[u].exists
         THEN Finish(p, Ok("null"))
         ELSE [@ EXCEPT !.pc = "tx_commit", !.snap = users[u], !.stale = FALSE]]
  /\ UNCHANGED <<build, users, xpTransactions, spots, events, verificationLogs, calls, spotRest>>

handleSpotVerificationUpdate_commit(p) ==
  /\ proc[p].pc = "tx_commit"
  /\ proc[p].op = "handleSpotVerificationUpdate"
  /\ ~TxConflict(p)
  /\ LET u == proc[p].user
         userData == proc[p].snap
         currentXP == JsOr(userData.xpPoints, JsOr(userData.xp, 0))
         newXP == currentXP + 100
     IN
       /\ users' = [users EXCEPT ![u] =
            [@ EXCEPT !.xpPoints = newXP, !.xp = newXP,
                      !.spotsDiscovered = @ + 1]]
       /\ xpTransactions' = Append(xpTransactions,
            LedgerEntry(u, "SPOT_APPROVED", 100, "AWARD", proc[p].spotId, "",
                        currentXP, newXP))
       /\ proc' = AfterWrite(p, Finish(p, Ok("null")), u)
  /\ UNCHANGED <<build, spots, events, verificationLogs, calls, spotRest>>

\* ------------------------------------------------------------ trust ledger
\* updateUserTrustScore(db, userId, verificationResult) called on its own:
\* the function takes whatever status the result carries
updateUserTrustScore(p, userId, status) ==
  /\ Start(p)
  /\ proc' = [proc EXCEPT ![p] =
       [Idle EXCEPT !.op = "updateUserTrustScore", !.pc = "tx_get",
                    !.user = userId, !.action = status]]
  /\ UNCHANGED <<build, users, xpTransactions, spots, events, verificationLogs, spotRest>>

\* auth.token.superadmin (a custom claim of the caller's token)
SuperAdminUids == {"root"}

\* cleanupMigration (migration.js): the caller check and the batch that
\* deletes the verification fields of every spot.  migration.js never imports
\* HttpsError, so the refusal is a ReferenceError, reported as internal.  The
\* spot triggers return at once on a status that became absent.
cleanupMigration(p, caller) ==
  /\ Start(p)
  /\ IF caller \notin SuperAdminUids
     THEN /\ proc' = [proc EXCEPT ![p] = Return("cleanupMigration", HttpsError("internal"))]
          /\ UNCHANGED spots
     ELSE /\ spots' = [s \in DOMAIN spots |->
               IF spots[s].exists
               THEN [spots[s] EXCEPT !.verificationStatus = "", !.reasons = "",
                                     !.xpReleased = FALSE]
               ELSE spots[s]]
          /\ proc' = [proc EXCEPT ![p] =
               [Idle EXCEPT !.op = "cleanupMigration", !.pc = "user_batch",
                            !.caller = caller]]
  /\ UNCHANGED <<build, users, xpTransactions, events, verificationLogs, spotRest>>

\* cleanupMigration: the batch that deletes the trust fields of every user
cleanupMigration_users(p) ==
  /\ proc[p].pc = "user_batch"
  /\ users' = [u \in UserIds |->
       IF users[u].exists
       THEN [users[u] EXCEPT !.trustScore = 0, !.spotSubmissions = 0,
                             !.spotApprovedCount = 0, !.spotRejectedCount = 0,
                             !.isShadowBanned = FALSE, !.xpPending = 0]
       ELSE users[u]]
  /\ proc' = [q \in Procs |->
       IF q = p THEN Finish(p, Ok("success"))
       ELSE IF proc[q].pc = "tx_commit" /\ users[proc[q].user].exists
       THEN [proc[q] EXCEPT !.stale = TRUE]
       ELSE proc[q]]
  /\ UNCHANGED <<build, xpTransactions, spots, events, verificationLogs, calls, spotRest>>

\* ------------------------------------------------------------ spot reports
\* what the report actions leave alone
reportRest == <<build, users, xpTransactions, xpHistory, userChallenges, verificationLogs,
                rewards, redemptions, sponsors, entropy, issued>>

validReasons == {"FAKE", "WRONG_LOCATION", "SPAM", "OFFENSIVE", "DANGEROUS", "DUPLICATE"}

\* reportSpot's catch: spotReporting.js re-throws every error that has a
\* code; index.js re-throws only a code that starts with 'functions/'
reportSpot_catch(err) ==
  IF build = "modular" \/ StartsWithFunctions(err.code) THEN err ELSE HttpsError("internal")

\* reportSpot up to the spot read: the checks on the request, on an existing
\* report of the caller and on the spot
reportSpot(p, caller, s, reason) ==
  /\ Start(p)
  /\ LET mine == {i \in DOMAIN spotReports :
                    spotReports[i].spotId = s /\ spotReports[i].reportedBy = caller}
         r == Return("reportSpot", NoRet)
     IN
       proc' = [proc EXCEPT ![p] =
         IF caller = "" THEN [r EXCEPT !.ret = HttpsError("unauthenticated")]
         ELSE IF s = "" \/ reason = "" \/ reason \notin validReasons
         THEN [r EXCEPT !.ret = HttpsError("invalid-argument")]
         ELSE IF mine # {}
         THEN [r EXCEPT !.ret = reportSpot_catch(HttpsError("already-exists"))]
         ELSE IF ~spots[s].exists
         THEN [r EXCEPT !.ret = reportSpot_catch(HttpsError("not-found"))]
         ELSE IF spots[s].createdBy = caller
         THEN [r EXCEPT !.ret = reportSpot_catch(HttpsError("permission-denied"))]
         ELSE [Idle EXCEPT !.op = "reportSpot", !.pc = "report_add", !.caller = caller,
                           !.spotId = s, !.action = reason]]
  /\ UNCHANGED <<spots, events, spotReports, reportRest>>

\* reportSpot: spotReports.add
reportSpot_add(p) ==
  /\ proc[p].pc = "report_add"
  /\ spotReports' = Append(spotReports,
       [spotId |-> proc[p].spotId, reportedBy |-> proc[p].caller,
        reason |-> proc[p].action])
  /\ proc' = [proc EXCEPT ![p] = [@ EXCEPT !.pc = "auto_flag"]]
  /\ UNCHANGED <<spots, events, calls, reportRest>>

\* two or more reports with the same reason
checkForConsensusReports(reports) ==
  /\ Cardinality(reports) >= 2
  /\ \E i, j \in reports : i # j /\ spotReports[i].reason = spotReports[j].reason

\* checkSpotForAutoFlag and flagSpotForReview: every report is younger than
\* 24 hours.  The update of an absent spot throws and is logged.
checkSpotForAutoFlag(p) ==
  /\ proc[p].pc = "auto_flag"
  /\ LET s == proc[p].spotId
         allReports == {i \in DOMAIN spotReports : spotReports[i].spotId = s}
         reportCount == Cardinality(allReports)
         totalReports == Cardinality(allReports)
         shouldFlag == reportCount >= 3 \/ totalReports >= 5
                         \/ checkForConsensusReports(allReports)
     IN
       IF shouldFlag /\ spots[s].exists
       THEN /\ spots' = [spots EXCEPT ![s] = [@ EXCEPT !.verificationStatus = "FLAGGED"]]
            /\ events' = EmitChange(events, s, spots[s].verificationStatus, "FLAGGED")
       ELSE UNCHANGED <<spots, events>>
  /\ proc' = [proc EXCEPT ![p] = Finish(p, Ok("success"))]
  /\ UNCHANGED <<spotReports, calls, reportRest>>

\* ------------------------------------------------------------ verification scoring
\* VERIFICATION_CONFIG thresholds
MANUAL_REVIEW_THRESHOLD == 50
AUTO_APPROVE_THRESHOLD == 80

\* analyzeMovementPattern.  submissions: the documents of the query, newest
\* first, each with its createdAt (ms) and with distance, the result of
\* getDistance between it and the new spot in metres (the haversine formula
\* itself is not computed).
analyzeMovementPattern(submissions, newSpot) ==
  IF Len(submissions) = 0 THEN FALSE
  ELSE LET lastSubmission == submissions[1]
           timeDiff == newSpot.createdAt - lastSubmission.createdAt
           distance == lastSubmission.distance
       IN IF timeDiff < 60000 THEN TRUE
          ELSE IF distance > 10000 /\ timeDiff < 300000 THEN TRUE
          \* distance / (timeDiff / 1000) > MAX_SPEED_MPS
          ELSE distance * 1000 > 50 * timeDiff

\* checkLocationAccuracy.  fails: the query of the recent submissions threw.
\* accuracy 0: locationMetadata.accuracy is absent (|| 999).
checkLocationAccuracy(spotData, recentSubmissions, fails) ==
  IF fails THEN CheckResult(50, {})
  ELSE
    LET suspicious == analyzeMovementPattern(recentSubmissions, spotData)
        score1 == IF Len(recentSubmissions) = 0 THEN 60
                  ELSE IF suspicious THEN 0 ELSE 80
        flags1 == IF Len(recentSubmissions) # 0 /\ suspicious
                  THEN {"suspicious_movement"} ELSE {}
        score2 == IF spotData.isMockLocation THEN Min(score1, 10) ELSE score1
        flags2 == IF spotData.isMockLocation
                  THEN flags1 \cup {"mock_location_detected"} ELSE flags1
        accuracy == JsOr(spotData.accuracy, 999)
        score3 == IF accuracy <= 20 THEN Min(100, score2 + 20)
                  ELSE IF accuracy <= 50 THEN Min(100, score2 + 10)
                  ELSE IF accuracy > 100 THEN Max(0, score2 - 20)
                  ELSE score2
    IN CheckResult(Max(0, Min(100, score3)), flags2)

\* checkPhotoVerification.  hasImage: primaryImageUrl or a non-empty
\* imageUrls; hash 0: photoMetadata.hash is absent; otherHashes: the hashes
\* of the other spots; exif: whether photoMetadata.exif is present, whether
\* its dateTimeOriginal is within the hour, and "match" / "mismatch" / ""
\* (absent) for its position; fails: the query threw.
checkPhotoVerification(spotData, otherHashes, fails) ==
  IF ~spotData.hasImage THEN CheckResult(20, {})
  ELSE IF spotData.hash # 0 /\ fails THEN CheckResult(40, {})
  ELSE IF spotData.hash # 0 /\ spotData.hash \in otherHashes
  THEN CheckResult(0, {"duplicate_image"})
  ELSE
    LET score1 == IF spotData.hash # 0 THEN 60 + 20 ELSE 60
        exif == spotData.exif
        score2 == IF exif.present /\ exif.recent THEN score1 + 10 ELSE score1
        score3 == IF ~exif.present \/ exif.gps = "" THEN score2
                  ELSE IF exif.gps = "match" THEN score2 + 10 ELSE score2 - 10
    IN CheckResult(Max(0, Min(100, score3)), {})

RoundHundredth_floor(x) == x \div 100
\* Math.round(x / 100) for x >= 0
RoundHundredth(x) == (x + 50) \div 100

\* the status performSpotVerification decides for the flags and the score
verificationStatusFor(flags, totalScore) ==
  IF flags # {} THEN "FLAGGED"
  ELSE IF totalScore >= AUTO_APPROVE_THRESHOLD THEN "AUTO_APPROVED"
  ELSE IF totalScore < MANUAL_REVIEW_THRESHOLD THEN "PENDING"
  ELSE "PENDING"

\* ---- the spots collection as the checks read it.  A stored spot document
\* carries id, createdBy, createdAt (ms), pos (its position in metres along
\* a line: getDistance is the difference of two positions), hash
\* (photoMetadata.hash, 0: absent) and title.
Dist(a, b) == IF a >= b THEN a - b ELSE b - a

\* orderBy("createdAt", "desc")
RECURSIVE NewestFirst(_)
NewestFirst(docs) ==
  IF docs = {} THEN <<>>
  ELSE LET d == CHOOSE d \in docs : \A e \in docs : e.createdAt <= d.createdAt
       IN <<d>> \o NewestFirst(docs \ {d})

\* checkLocationAccuracy's query: the spots created by the submitter in the
\* last 24 hours, newest first, at most five
recentSubmissionsOf(collection, spotData, now) ==
  LET docs == {d \in collection : d.createdBy = spotData.createdBy
                                   /\ d.createdAt > now - 24 * 60 * 60 * 1000}
      ordered == NewestFirst(docs)
      limited == SubSeq(ordered, 1, Min(5, Len(ordered)))
  IN [i \in DOMAIN limited |->
        [id |-> limited[i].id, createdAt |-> limited[i].createdAt,
         distance |-> Dist(limited[i].pos, spotData.pos)]]

\* checkPhotoVerification's query: the spots with another id
otherHashesOf(collection, spotData) ==
  {d.hash : d \in {e \in collection : e.id # spotData.id}}

\* checkUserTrust's query: the spots created by the user since midnight
todaySubmissionsOf(collection, userId, todayStart) ==
  Cardinality({d \in collection : d.createdBy = userId /\ d.createdAt >= todayStart})

\* checkDuplicateSpots.  The box of +-0.001 degrees is the spots within 111 m;
\* calculateTextSimilarity is 1 for equal titles, and the unequal titles drawn
\* are not similar.  fails: the query threw.
checkDuplicateSpots(spotData, collection, fails) ==
  IF fails THEN CheckResult(60, {})
  ELSE
    LET nearbySpots == {d \in collection : Dist(d.pos, spotData.pos) <= 111
                                           /\ d.id # spotData.id}
        distance(d) == Dist(d.pos, spotData.pos)
        similar(d) == d.title = spotData.title
        veryClose == {d \in nearbySpots : distance(d) < 25 /\ ~similar(d)}
        near == {d \in nearbySpots : distance(d) >= 50 /\ distance(d) < 100}
    IN IF \E d \in nearbySpots : distance(d) < 50 /\ similar(d)
       THEN CheckResult(0, {"potential_duplicate"})
       ELSE CheckResult(Max(0, Min(100, 80 - 30 * Cardinality(veryClose)
                                           - 10 * Cardinality(near))), {})

\* checkUserTrust.  accountOld: Date.now() - userData.createdAt is above the
\* grace period of 7 days; fails: "user" (the read of the user threw) or
\* "today" (the query of today's spots threw) or "".
checkUserTrust(userData, accountOld, todaySubmissions, fails) ==
  IF fails = "user" THEN CheckResult(40, {})
  ELSE IF ~userData.exists THEN CheckResult(30, {})
  ELSE IF userData.isShadowBanned THEN CheckResult(0, {"shadow_banned_user"})
  ELSE
    LET score1 == JsOr(userData.trustScore, 100)
        score2 == IF accountOld THEN score1 + 10 ELSE score1
        totalSubmissions == JsOr(userData.spotSubmissions, 0)
        approvedCount == JsOr(userData.spotApprovedCount, 0)
        high == totalSubmissions > 0 /\ approvedCount * 10 > 8 * totalSubmissions
        low == totalSubmissions > 0 /\ approvedCount * 10 < 3 * totalSubmissions
        score3 == IF high THEN score2 + 15 ELSE IF low THEN score2 - 20 ELSE score2
        flags3 == IF low /\ approvedCount * 10 < ShadowBanRejectionTenths * totalSubmissions
                         /\ totalSubmissions >= 5
                  THEN {"shadow_ban_candidate"} ELSE {}
        limited == todaySubmissions >= 3
        score4 == IF limited THEN Min(score3, 20) ELSE score3
        flags4 == IF limited THEN flags3 \cup {"rate_limit_exceeded"} ELSE flags3
    IN IF fails = "today" THEN CheckResult(40, flags3)
       ELSE CheckResult(Max(0, Min(100, score4)), flags4)

\* checkContentQuality.  spotData.text: the length of the trimmed title,
\* whether a spam pattern matches it, the length of the trimmed description,
\* whether title or description holds one of the listed words.
checkContentQuality(spotData) ==
  LET text == spotData.text
      score1 == IF text.titleLen < 5 THEN 70 - 30
                ELSE IF text.titleLen > 100 THEN 70 - 10 ELSE 70
      score2 == IF text.spam THEN score1 - 20 ELSE score1
      score3 == IF text.descLen < 10 THEN score2 - 15
                ELSE IF text.descLen > 500 THEN score2 - 5 ELSE score2
      score4 == IF text.profane THEN score3 - 15 ELSE score3
      score5 == IF spotData.category \notin {"CAFE", "VIEWPOINT", "ART", "PARK",
                                             "HISTORICAL", "HIDDEN_GEM"}
                THEN score4 - 10 ELSE score4
  IN CheckResult(Max(0, Min(100, score5)), {})

\* what the scoring actions leave alone
scoreRest == <<build, users, xpTransactions, spots, events, verificationLogs, spotRest>>

\* performSpotVerification, first check: checkLocationAccuracy.  collection:
\* the spots collection as it is while the trigger runs.
performSpotVerification(p, spotData, collection, recentSubmissions, fails) ==
  /\ Start(p)
  /\ LET earlier == {i \in DOMAIN recentSubmissions :
                         recentSubmissions[i].id # spotData.id}
         tooFast == \E i \in earlier :
                       spotData.createdAt - recentSubmissions[i].createdAt < 60000
     IN proc' = [proc EXCEPT ![p] =
          [Idle EXCEPT !.op = "performSpotVerification", !.pc = "photo",
             !.spotData = spotData, !.collection = collection,
             !.vr = [NoResult EXCEPT
               !.location = checkLocationAccuracy(spotData, recentSubmissions, fails),
               !.facts = (IF tooFast THEN {"previous_within_60s"} ELSE {})
                           \cup (IF fails THEN {"location_read_failed"} ELSE {})
                           \cup (IF earlier = {} THEN {"no_earlier_submission"} ELSE {})
                           \cup (IF spotData.accuracy = 15 /\ ~spotData.isMockLocation
                                 THEN {"accuracy_15"} ELSE {})]]]
  /\ UNCHANGED scoreRest

\* performSpotVerification, second check: checkPhotoVerification
performSpotVerification_photo(p, spotData, otherHashes, fails) ==
  /\ proc[p].pc = "photo"
  /\ LET collision == spotData.hash # 0 /\ spotData.hash \in otherHashes
     IN proc' = [proc EXCEPT ![p] =
          [@ EXCEPT !.pc = "others",
             !.vr = [@ EXCEPT
               !.photo = checkPhotoVerification(spotData, otherHashes, fails),
               !.facts = @ \cup (IF collision THEN {"same_hash_as_other_spot"} ELSE {})
                           \cup (IF spotData.hash # 0 /\ fails
                                 THEN {"photo_read_failed"} ELSE {})
                           \cup (IF spotData.hasImage /\ spotData.hash # 0 /\ ~collision
                                 THEN {"photo_with_unique_hash"} ELSE {})]]]
  /\ UNCHANGED <<calls, scoreRest>>

\* performSpotVerification: the results of checkDuplicateSpots, checkUserTrust
\* and checkContentQuality, the weighted total and the status.  seen
\* (history): what the three checks read.
performSpotVerification_total(p, duplicateScore, trustScore, contentScore, seen) ==
  /\ proc[p].pc = "others"
  /\ LET vr == proc[p].vr
         flags == vr.location.flags \cup vr.photo.flags \cup duplicateScore.flags
                    \cup trustScore.flags \cup contentScore.flags
         totalScore == RoundHundredth(vr.location.score * 30 + vr.photo.score * 20
                                        + duplicateScore.score * 20 + trustScore.score * 20
                                        + contentScore.score * 10)
     IN proc' = [proc EXCEPT ![p] =
          [Finish(p, Ok("done")) EXCEPT
             !.vr = [vr EXCEPT !.duplicate = duplicateScore, !.trust = trustScore,
                               !.content = contentScore,
                               !.flags = flags, !.score = totalScore,
                               !.status = verificationStatusFor(flags, totalScore),
                               !.facts = @ \cup seen]]]
  /\ UNCHANGED <<calls, scoreRest>>

\* ------------------------------------------------ cooldown and daily limit
\* The clock, in minutes: one invocation starts in each minute.
Now == calls
\* the rule of the action: rule.cooldown (minutes) and rule.maxDaily
CooldownMinutes == 30
MaxDaily == 2
\* midnight was an hour before the first invocation
StartOfDay == 0 - 60

\* what nothing else in a limit check changes
limitRest == <<build, users, xpTransactions, xpHistory, userChallenges, nonXp, issued>>

\* awards made in the run to userId for the action: the AWARD entries of the
\* ledger and, in index.js, the awardXP commits (each writes one xpHistory
\* document; the requests drawn are all for u1 and one action)
AwardsMade(userId, action) ==
  Cardinality({i \in DOMAIN xpTransactions :
                 /\ xpTransactions[i].userId = userId
                 /\ xpTransactions[i].action = action
                 /\ xpTransactions[i].type = "AWARD"})
    + (IF build = "monolith" /\ userId = "u1" THEN xpHistory ELSE 0)

\* checkCooldown: the newest document of users/{userId}/xpHistory for the
\* action with awardedAt above the cutoff.  n: remainingSeconds.
checkCooldown(p, userId, action) ==
  /\ Start(p)
  /\ LET cutoffTime == Now - CooldownMinutes
         recentHistory == {h \in users[userId].history :
                             h.action = action /\ h.awardedAt > cutoffTime}
         lastAwardTime == CHOOSE t \in {h.awardedAt : h \in recentHistory} :
                             \A h \in recentHistory : h.awardedAt <= t
         remainingSeconds == (CooldownMinutes - (Now - lastAwardTime)) * 60
         note == IF AwardsMade(userId, action) > 0 THEN "awarded" ELSE ""
     IN proc' = [proc EXCEPT ![p] =
          IF recentHistory # {}
          THEN [Return("checkCooldown", Ok("not-allowed")) EXCEPT
                  !.n = remainingSeconds, !.note = note]
          ELSE [Return("checkCooldown", Ok("allowed")) EXCEPT !.note = note]]
  /\ UNCHANGED limitRest

\* checkDailyLimit: the documents of users/{userId}/xpHistory for the action
\* with awardedAt after midnight.  n: the number of awards made in the run.
checkDailyLimit(p, userId, action) ==
  /\ Start(p)
  /\ LET todayHistory == {h \in users[userId].history :
                            h.action = action /\ h.awardedAt > StartOfDay}
         currentCount == Cardinality(todayHistory)
     IN proc' = [proc EXCEPT ![p] =
          [Return("checkDailyLimit",
                  IF currentCount >= MaxDaily THEN Ok("not-allowed") ELSE Ok("allowed"))
             EXCEPT !.n = AwardsMade(userId, action)]]
  /\ UNCHANGED limitRest

\* ------------------------------------------------------------------ badges
\* serverTimestamp() of a write of one document: later than the time of the
\* write before it
ServerTimestamp(previous) == previous + 1

\* checkAndUnlockBadges up to the read of the badge definitions
checkAndUnlockBadges(p, userId, xp, level) ==
  /\ Start(p)
  /\ proc' = [proc EXCEPT ![p] =
       [Idle EXCEPT !.op = "checkAndUnlockBadges", !.pc = "badges_get",
                    !.user = userId, !.amount = xp, !.n = level]]
  /\ UNCHANGED limitRest

\* checkAndUnlockBadges: the read of the user's badges and the loop over the
\* definitions; a milestone badge reads the user document.  pending: the
\* badges whose unlockBadge was started.
checkAndUnlockBadges_get(p) ==
  /\ proc[p].pc = "badges_get"
  /\ LET u == proc[p].user
         existingBadgeIds == {b \in BadgeIds : users[u].badges[b] # 0}
         shouldUnlock(b) ==
           LET badge == BadgeDefinitions[b] IN
             \/ badge.unlockType = "xp" /\ proc[p].amount >= badge.required
             \/ badge.unlockType = "level" /\ proc[p].n >= badge.required
             \/ /\ badge.unlockType = "milestone"
                /\ badge.milestoneType = "spotsDiscovered"
                /\ JsOr(users[u].spotsDiscovered, 0) >= badge.required
         unlock == {b \in BadgeIds \ existingBadgeIds : shouldUnlock(b)}
     IN proc' = [proc EXCEPT ![p] =
          IF unlock = {} THEN Finish(p, Ok("done"))
          ELSE [@ EXCEPT !.pc = "unlock", !.pending = unlock]]
  /\ UNCHANGED <<limitRest, calls>>

\* unlockBadge: badgeRef.set of one started unlock; a failed set is logged
unlockBadge(p, badgeId, fails) ==
  /\ proc[p].pc = "unlock"
  /\ badgeId \in proc[p].pending
  /\ LET u == proc[p].user
         rest == proc[p].pending \ {badgeId}
     IN
       /\ users' = IF fails THEN users
                   ELSE [users EXCEPT ![u] =
                           [@ EXCEPT !.badges[badgeId] = ServerTimestamp(@)]]
       /\ proc' = [proc EXCEPT ![p] =
            IF rest = {} THEN Finish(p, Ok("done")) ELSE [@ EXCEPT !.pending = rest]]
  /\ UNCHANGED <<build, xpTransactions, xpHistory, userChallenges, nonXp, issued, calls>>

\* ------------------------------------------------------------------- likes
\* what toggleLike leaves alone
likeRest == <<build, users, xpTransactions, events, verificationLogs, spotRest>>

\* toggleLike up to the transaction
toggleLike(p, caller, spotId) ==
  /\ Start(p)
  /\ proc' = [proc EXCEPT ![p] =
       IF caller = "" THEN Return("toggleLike", HttpsError("unauthenticated"))
       ELSE IF spotId = "" THEN Return("toggleLike", HttpsError("invalid-argument"))
       ELSE [Idle EXCEPT !.op = "toggleLike", !.pc = "tx_get",
                         !.caller = caller, !.spotId = spotId]]
  /\ UNCHANGED <<spots, likeRest>>

\* toggleLike: transaction.get of the spot and of the caller's like document.
\* n: the likeCount read; saw: the like document exists.
toggleLike_get(p) ==
  /\ proc[p].pc = "tx_get"
  /\ proc[p].op = "toggleLike"
  /\ LET s == proc[p].spotId IN
       proc' = [proc EXCEPT ![p] =
         IF s \notin SpotIds \/ ~spots[s].exists
         THEN \* Error("Spot does not exist") -> catch -> internal
              Finish(p, HttpsError("internal"))
         ELSE [@ EXCEPT !.pc = "tx_commit", !.stale = FALSE,
                        !.n = JsOr(spots[s].likeCount, 0),
                        !.saw = proc[p].caller \in spots[s].likes]]
  /\ UNCHANGED <<spots, calls, likeRest>>

\* toggleLike: the commit of the like document and of likeCount.  The
\* transactions in flight that read the spot are run again.
toggleLike_commit(p) ==
  /\ proc[p].pc = "tx_commit"
  /\ proc[p].op = "toggleLike"
  /\ ~TxConflict(p)
  /\ LET s == proc[p].spotId
         isCurrentlyLiked == proc[p].saw
         currentLikeCount == proc[p].n
         newLikeCount == IF isCurrentlyLiked THEN Max(0, currentLikeCount - 1)
                         ELSE currentLikeCount + 1
     IN
       /\ spots' = [spots EXCEPT ![s] =
            [@ EXCEPT !.likes = IF isCurrentlyLiked THEN @ \ {proc[p].caller}
                                ELSE @ \cup {proc[p].caller},
                      !.likeCount = newLikeCount]]
       /\ proc' = [q \in Procs |->
            IF q = p
            THEN Finish(p, Ok(IF isCurrentlyLiked THEN "unliked" ELSE "liked"))
            ELSE IF proc[q].op = "toggleLike" /\ proc[q].pc = "tx_commit"
                    /\ proc[q].spotId = s
            THEN [proc[q] EXCEPT !.stale = TRUE]
            ELSE proc[q]]
  /\ UNCHANGED <<calls, likeRest>>

\* ------------------------------------------------------------ QR redemption
\* what redeemByQR leaves alone
redeemRest == <<build, xpTransactions, xpHistory, userChallenges, spots, events,
                verificationLogs, sponsors, entropy, issued, spotReports>>

\* A scanned code: its format, the reward id it carries and the id's length.
\*   deeplink  mysteriSpots://reward/{id}
\*   legacy    REWARD_{id}_{timestamp}_{random}
\*   plain     {id}, accepted when it has 10 or more characters
QrCodes == [fmt : {"deeplink", "legacy", "plain", "other"}, id : ScannedIds, len : {2, 20}]

extractRewardId(qr) ==
  IF qr.fmt = "deeplink" THEN qr.id
  ELSE IF qr.fmt = "legacy" THEN qr.id
  ELSE IF qr.fmt = "plain" /\ qr.len >= 10 THEN qr.id
  ELSE ""

\* redeemByQR's catch: an HttpsError is re-thrown when its code starts with
\* 'functions/', anything else is wrapped as internal
redeemByQR_catch(err) ==
  IF StartsWithFunctions(err.code) THEN err ELSE HttpsError("internal")

\* redeemByQR up to and including the reward read and the checks on it
redeemByQR(p, caller, qr) ==
  /\ build = "monolith"
  /\ Start(p)
  /\ LET rewardId == extractRewardId(qr)
         reward == rewards[rewardId]
         fails ==
           IF caller = "" THEN "unauthenticated"
           ELSE IF rewardId = "" THEN "invalid-argument"
           ELSE IF ~reward.exists THEN "not-found"
           ELSE IF ~reward.active THEN "failed-precondition"
           ELSE IF reward.expired THEN "failed-precondition"
           ELSE IF reward.maxRedemptions # 0
                   /\ reward.currentRedemptions >= reward.maxRedemptions
           THEN "failed-precondition"
           ELSE ""
     IN
       proc' = [proc EXCEPT ![p] =
         IF fails # ""
         THEN Return("redeemByQR", redeemByQR_catch(HttpsError(fails)))
         ELSE [Idle EXCEPT !.op = "redeemByQR", !.pc = "existing_query",
                           !.caller = caller, !.user = caller, !.reward = rewardId,
                           !.amount = JsOr(reward.xpRequired, 0)]]
  /\ UNCHANGED <<users, rewards, redemptions, redeemRest>>

\* the user's un-used redemptions of the reward
LiveRedemptions(u, r) ==
  {i \in DOMAIN redemptions :
     redemptions[i].userId = u /\ redemptions[i].rewardId = r /\ ~redemptions[i].used}

\* redeemByQR: the query for an existing un-used redemption
redeemByQR_existing(p) ==
  /\ proc[p].pc = "existing_query"
  /\ proc' = [proc EXCEPT ![p] =
       IF LiveRedemptions(proc[p].user, proc[p].reward) # {}
       THEN [Finish(p, redeemByQR_catch(HttpsError("already-exists"))) EXCEPT !.saw = TRUE]
       ELSE [@ EXCEPT !.pc = "user_get"]]
  /\ UNCHANGED <<users, rewards, redemptions, calls, redeemRest>>

\* redeemByQR: the user read and the XP check outside the transaction
redeemByQR_user(p) ==
  /\ proc[p].pc = "user_get"
  /\ proc[p].op = "redeemByQR"
  /\ LET u == proc[p].user IN
       proc' = [proc EXCEPT ![p] =
         IF ~users[u].exists
         THEN Finish(p, redeemByQR_catch(HttpsError("not-found")))
         ELSE IF JsOr(users[u].xp, 0) < proc[p].amount
         THEN Finish(p, redeemByQR_catch(HttpsError("failed-precondition")))
         ELSE [@ EXCEPT !.pc = "tx_get"]]
  /\ UNCHANGED <<users, rewards, redemptions, calls, redeemRest>>

\* redeemByQR: transaction.get(user) and the re-check of the XP
redeemByQR_get(p) ==
  /\ proc[p].pc = "tx_get"
  /\ proc[p].op = "redeemByQR"
  /\ LET u == proc[p].user IN
       proc' = [proc EXCEPT ![p] =
         IF JsOr(users[u].xp, 0) < proc[p].amount
         THEN [Finish(p, redeemByQR_catch(HttpsError("failed-precondition")))
                 EXCEPT !.note = "recheck-failed"]
         ELSE [@ EXCEPT !.pc = "tx_commit", !.snap = users[u], !.stale = FALSE]]
  /\ UNCHANGED <<users, rewards, redemptions, calls, redeemRest>>

\* redeemByQR: commit of the redemption record, the XP debit and the
\* increment of the reward's currentRedemptions
redeemByQR_commit(p) ==
  /\ proc[p].pc = "tx_commit"
  /\ proc[p].op = "redeemByQR"
  /\ ~TxConflict(p)
  /\ LET u == proc[p].user
         r == proc[p].reward
         xpCost == proc[p].amount
         latestXP == JsOr(proc[p].snap.xp, 0)
         newXP == latestXP - xpCost
         newLevel == calculateLevel(newXP)
     IN
       /\ redemptions' = Append(redemptions,
            [userId |-> u, rewardId |-> r, sponsorId |-> rewards[r].sponsorId,
             xpUsed |-> xpCost, used |-> FALSE, usedAt |-> 0, validatedBy |-> ""])
       /\ users' = [users EXCEPT ![u] = [@ EXCEPT !.xp = newXP, !.level = newLevel]]
       /\ rewards' = [rewards EXCEPT ![r] =
            [@ EXCEPT !.currentRedemptions = @ + 1]]
       /\ proc' = AfterWrite(p, Finish(p, Ok("success")), u)
  /\ UNCHANGED <<calls, redeemRest>>

\* ------------------------------------------------------------ redemption validation
\* A scanned redemption code: its format and the redemption document id it
\* carries (the position of the record in `redemptions`).
\*   deeplink  mysteriSpots://redemption/{redemptionId}
\*   pair      {userId}/{redemptionId}
MaxRedemptionId == 2
RedemptionCodes == [fmt : {"deeplink", "pair", "other"}, id : 1..MaxRedemptionId]

extractRedemptionId(code) ==
  IF code.fmt = "deeplink" THEN code.id
  ELSE IF code.fmt = "pair" THEN code.id
  ELSE 0

\* validateRedemption's catch: the same test as redeemByQR's
validateRedemption_catch(err) ==
  IF StartsWithFunctions(err.code) THEN err ELSE HttpsError("internal")

\* validateRedemption up to the check of redemption.used: the collection-group
\* read of the record, the sponsor read and the checks on the two snapshots
validateRedemption(p, caller, code) ==
  /\ build = "monolith"
  /\ Start(p)
  /\ LET redemptionId == extractRedemptionId(code)
         found == redemptionId \in DOMAIN redemptions
         redemption == redemptions[redemptionId]
         sponsorFound == found /\ redemption.sponsorId \in SponsorIds
                               /\ sponsors[redemption.sponsorId].exists
         sponsorOwnerId == sponsors[redemption.sponsorId].ownerUserId
         fails ==
           IF caller = "" THEN "unauthenticated"
           ELSE IF redemptionId = 0 THEN "invalid-argument"
           ELSE IF ~found THEN "not-found"
           ELSE IF ~sponsorFound THEN "not-found"
           ELSE IF sponsorOwnerId # caller THEN "permission-denied"
           ELSE IF redemption.used THEN "already-exists"
           ELSE ""
         note ==
           IF caller # "" /\ sponsorFound /\ sponsorOwnerId # caller THEN "not-owner"
           ELSE IF caller # "" /\ sponsorFound /\ redemption.used THEN "already-used"
           ELSE ""
     IN
       proc' = [proc EXCEPT ![p] =
         IF fails # ""
         THEN [Return("validateRedemption", validateRedemption_catch(HttpsError(fails)))
                 EXCEPT !.note = note]
         ELSE [Idle EXCEPT !.op = "validateRedemption", !.pc = "update",
                           !.caller = caller, !.n = redemptionId]]
  /\ UNCHANGED <<users, rewards, redemptions, redeemRest>>

\* validateRedemption: the update that marks the record used. usedAt is the
\* server timestamp, kept as the number of times it was written (0: null).
validateRedemption_update(p) ==
  /\ proc[p].op = "validateRedemption"
  /\ proc[p].pc = "update"
  /\ redemptions' = [redemptions EXCEPT ![proc[p].n] =
       [@ EXCEPT !.used = TRUE, !.usedAt = @ + 1, !.validatedBy = proc[p].caller]]
  /\ proc' = [proc EXCEPT ![p] = Finish(p, Ok("success"))]
  /\ UNCHANGED <<users, rewards, calls, redeemRest>>

\* ------------------------------------------------------------ sponsor QR codes
\* what the sponsor QR functions leave alone
qrRest == <<build, users, xpTransactions, xpHistory, userChallenges, spots, events,
            verificationLogs, rewards, redemptions, issued, spotReports>>

\* sponsors/{uid} as read by get(); a uid without document reads as absent
SponsorDoc(uid) == IF uid \in SponsorIds THEN sponsors[uid] ELSE NoSponsor

\* generateSponsorQR: the authentication check; sponsorId is the caller's uid
generateSponsorQR(p, caller) ==
  /\ build = "monolith"
  /\ Start(p)
  /\ proc' = [proc EXCEPT ![p] =
       IF caller = "" THEN Return("generateSponsorQR", HttpsError("unauthenticated"))
       ELSE [Idle EXCEPT !.op = "generateSponsorQR", !.pc = "sponsor_get",
                         !.caller = caller]]
  /\ UNCHANGED <<sponsors, entropy, qrRest>>

\* regenerateSponsorQR: the authentication check and the increment of
\* qrVersion; update() of a missing document throws and the catch returns
\* {success: false}
regenerateSponsorQR(p, caller) ==
  /\ build = "monolith"
  /\ Start(p)
  /\ IF caller = ""
     THEN /\ proc' = [proc EXCEPT ![p] =
                Return("regenerateSponsorQR", HttpsError("unauthenticated"))]
          /\ UNCHANGED sponsors
     ELSE IF ~SponsorDoc(caller).exists
     THEN /\ proc' = [proc EXCEPT ![p] =
                Return("regenerateSponsorQR", [ok |-> FALSE, code |-> <<"success: false">>])]
          /\ UNCHANGED sponsors
     ELSE /\ sponsors' = [sponsors EXCEPT ![caller] = [@ EXCEPT !.qrVersion = @ + 1]]
          /\ proc' = [proc EXCEPT ![p] =
                [Idle EXCEPT !.op = "regenerateSponsorQR", !.pc = "sponsor_get",
                             !.caller = caller]]
  /\ UNCHANGED <<entropy, qrRest>>

\* generateQRDataForSponsor: the read of the sponsor document
generateQRDataForSponsor_get(p) ==
  /\ proc[p].pc = "sponsor_get"
  /\ LET sponsor == SponsorDoc(proc[p].caller) IN
       proc' = [proc EXCEPT ![p] =
         IF ~sponsor.exists
         THEN Finish(p, [ok |-> FALSE, code |-> <<"success: false">>])
         ELSE [@ EXCEPT !.sponsor = sponsor,
                        !.pc = IF sponsor.qrSecret = 0 THEN "sponsor_init" ELSE "sign"]]
  /\ UNCHANGED <<sponsors, entropy, calls, qrRest>>

\* generateQRDataForSponsor: the lazy initialisation of the secret; the new
\* secret is a fresh random value, and the local copy takes version 1
generateQRDataForSponsor_init(p) ==
  /\ proc[p].pc = "sponsor_init"
  /\ LET newSecret == entropy + 1 IN
       /\ entropy' = entropy + 1
       /\ sponsors' = [sponsors EXCEPT ![proc[p].caller] =
            [@ EXCEPT !.qrSecret = newSecret, !.qrVersion = 1]]
       /\ proc' = [proc EXCEPT ![p] =
            [@ EXCEPT !.pc = "sign",
                      !.sponsor = [@ EXCEPT !.qrSecret = newSecret, !.qrVersion = 1]]]
  /\ UNCHANGED <<calls, qrRest>>

\* generateQRDataForSponsor: payload, signature with the local copy of the
\* secret, the update of lastQrNonce, and the return of qrData
generateQRDataForSponsor_sign(p) ==
  /\ proc[p].pc = "sign"
  /\ LET sponsor == proc[p].sponsor
         nonce == entropy + 1
         qrData == SignedQr(JsOr(sponsor.qrVersion, 1), proc[p].caller, nonce,
                            sponsor.qrSecret)
     IN
       /\ entropy' = entropy + 1
       /\ sponsors' = [sponsors EXCEPT ![proc[p].caller] = [@ EXCEPT !.lastQrNonce = nonce]]
       /\ proc' = [proc EXCEPT ![p] = [Finish(p, Ok("success")) EXCEPT !.qr = qrData]]
  /\ UNCHANGED <<calls, qrRest>>

\* initializeSponsorQRSecrets: the checks and the read of all sponsors
initializeSponsorQRSecrets(p, caller) ==
  /\ build = "monolith"
  /\ Start(p)
  /\ proc' = [proc EXCEPT ![p] =
       IF caller = "" THEN Return("initializeSponsorQRSecrets", HttpsError("unauthenticated"))
       ELSE IF ~checkAdminPermissions(caller)
       THEN Return("initializeSponsorQRSecrets", HttpsError("permission-denied"))
       ELSE [Idle EXCEPT !.op = "initializeSponsorQRSecrets", !.pc = "batch_commit",
                         !.caller = caller, !.sponsor = sponsors["sp1"]]]
  /\ UNCHANGED <<sponsors, entropy, qrRest>>

\* initializeSponsorQRSecrets: batch.commit() of an update for every sponsor
\* that had no secret when read
initializeSponsorQRSecrets_commit(p) ==
  /\ proc[p].pc = "batch_commit"
  /\ IF proc[p].sponsor.qrSecret = 0
     THEN /\ entropy' = entropy + 1
          /\ sponsors' = [sponsors EXCEPT !["sp1"] =
               [@ EXCEPT !.qrSecret = entropy + 1, !.qrVersion = 1]]
     ELSE UNCHANGED <<sponsors, entropy>>
  /\ proc' = [proc EXCEPT ![p] = Finish(p, Ok("success"))]
  /\ UNCHANGED <<calls, qrRest>>

\* validateQRCode's catch: the same test as redeemByQR's
validateQRCode_catch(err) ==
  IF StartsWithFunctions(err.code) THEN err ELSE HttpsError("internal")

\* validateQRCode: the code is looked up among the rewards' qrCode fields
validateQRCode(p, caller, qrCode) ==
  /\ build = "monolith"
  /\ Start(p)
  /\ LET found == \E r \in RewardIds : rewards[r].exists /\ rewards[r].qrCode = qrCode
         current == qrCode.sid \in SponsorIds
                      /\ qrCode.v = sponsors[qrCode.sid].qrVersion
                      /\ qrCode.sig = <<sponsors[qrCode.sid].qrSecret, qrCode.v,
                                        qrCode.sid, qrCode.nonce>>
     IN
       proc' = [proc EXCEPT ![p] =
         IF caller = "" THEN Return("validateQRCode", validateQRCode_catch(HttpsError("unauthenticated")))
         ELSE [Return("validateQRCode",
                      IF found THEN Ok("valid") ELSE [ok |-> TRUE, code |-> <<"invalid">>])
                 EXCEPT !.qr = qrCode,
                        !.note = IF qrCode.sig = <<>> THEN ""
                                 ELSE IF current THEN "current-version"
                                 ELSE "earlier-version"]]
  /\ UNCHANGED <<sponsors, entropy, qrRest>>

\* ------------------------------------------------------------ specifications
\* the collections other than users, spots and the XP ledger, after deployment
InitOther ==
  /\ build \in Builds
  /\ xpHistory = 0
  /\ userChallenges = [k \in UserIds \X ChallengeIds |->
                         [currentProgress |-> 0, completed |-> FALSE]]
  /\ events = EmptyBag
  /\ \E xpRequired \in {0, RewardXpRequired} :
        rewards = [r \in ScannedIds |->
                     IF r \in RewardIds THEN InitialReward(xpRequired) ELSE NoReward]
  /\ redemptions = <<>>
  /\ sponsors = [s \in SponsorIds |-> InitialSponsor(s)]
  /\ entropy = 0
  /\ spotReports = <<>>
  /\ proc = [p \in Procs |-> Idle]
  /\ calls = 0
  /\ issued = [u \in UserIds |-> [n |-> 0, sum |-> 0]]

Init ==
  /\ InitOther
  /\ users = [u \in UserIds |-> IF u = "u0" THEN NoUser ELSE NewUser]
  /\ xpTransactions = <<>>
  /\ spots = [s \in SpotIds |-> NoSpot]
  /\ verificationLogs = 0

\* requests to awardXP of xpManagement.js: with a spot, with a challenge,
\* without a resource, above the action's maximum, by a uid without document
xpm_awardXP_requests(p) ==
  \/ xpm_awardXP(p, "u1", "VISIT_SPOT", 50, "s1", "")
  \/ xpm_awardXP(p, "u1", "COMPLETE_CHALLENGE", 200, "", "c1")
  \/ \E amount \in {10, 25} : xpm_awardXP(p, "u1", "RATE_SPOT", amount, "", "")
  \/ xpm_awardXP(p, "u1", "VISIT_SPOT", 200, "", "")
  \/ xpm_awardXP(p, "u0", "VISIT_SPOT", 50, "", "")

xpm_awardXP_steps(p) ==
  \/ xpm_awardXP_requests(p)
  \/ xpm_awardUserXP_get(p)
  \/ xpm_awardUserXP_commit(p)
  \/ TxRetry(p)

\* concurrent awardXP calls (xpManagement.js)
NextAward == \E p \in Procs : xpm_awardXP_steps(p)
InitAward == Init /\ build = "modular"
SpecAward == InitAward /\ [][NextAward]_vars

\* awardXP calls one after the other: no commit ever conflicts
NextAwardSeq ==
  \/ xpm_awardXP_requests(1)
  \/ xpm_awardUserXP_get(1)
  \/ xpm_awardUserXP_commit(1)
SpecAwardSeq == InitAward /\ [][NextAwardSeq]_vars

\* the XP-changing callables of both builds, on user u1
XpRequests(p) ==
  \/ xpm_awardXP(p, "u1", "RATE_SPOT", 25, "", "")
  \/ \E caller \in {"admin", "u2", ""}, adjustment \in {-1000000, 100} :
        xpm_adjustUserXP(p, caller, "u1", adjustment)
  \/ \E caller \in {"admin", "u2", ""}, xpAmount \in {-1000000, 100} :
        adjustUserXP(p, caller, "u1", xpAmount, "ADJUSTMENT")
  \/ adjustUserXP(p, "u2", "", 100, "ADJUSTMENT")
  \/ \E caller \in {"u2", ""} : adminGrantXP(p, caller, "u1", 100)
  \/ awardXP(p, "u2", "u1", 70)
  \/ updateServerChallengeProgress(p, "u1", "c1", 1)

XpSteps(p) ==
  \/ xpm_awardUserXP_get(p)
  \/ xpm_awardUserXP_commit(p)
  \/ xpm_adjustUserXP_get(p)
  \/ xpm_adjustUserXP_commit(p)
  \/ adjustUserXP_get(p)
  \/ adjustUserXP_commit(p)
  \/ adminGrantXP_update(p)
  \/ awardXP_get(p)
  \/ awardXP_commit(p)
  \/ updateServerChallengeProgress_set(p)
  \/ updateServerChallengeProgress_get(p)
  \/ updateServerChallengeProgress_update(p)
  \/ TxRetry(p)

NextXP == \E p \in Procs : XpRequests(p) \/ XpSteps(p)
SpecXP == Init /\ [][NextXP]_vars

\* spot creation, automatic verification, admin verification and the
\* status-change handlers
SpotRequests(p) ==
  \/ \E u \in {"u1", "u0"} : createSpot("s1", u)
  \/ \E caller \in {"admin", "u2"}, approved \in BOOLEAN :
        verifySpotSubmission(p, caller, "s1", approved)

SpotSteps(p) ==
  \/ \E e \in Events, outcome \in VerificationOutcomes \cup {"error"} :
        verifySpotSubmissionNew(p, e, outcome)
  \/ updateSpotVerification(p)
  \/ \E fails \in BOOLEAN : updateSpotVerification_log(p, fails)
  \/ updateUserTrustScore_get(p)
  \/ updateUserTrustScore_commit(p)
  \/ verifySpotSubmissionNew_catch(p)
  \/ \E e \in Events : xpm_handleSpotVerificationUpdate(p, e)
  \/ xpm_releaseSpotXP_get(p)
  \/ xpm_releaseSpotXP_commit(p)
  \/ xpm_markXpReleased(p)
  \/ xpm_logXPDenial(p)
  \/ xpm_markXpDenied(p)
  \/ \E e \in Events : handleSpotVerificationUpdate(p, e)
  \/ handleSpotVerificationUpdate_get(p)
  \/ handleSpotVerificationUpdate_commit(p)
  \/ TxRetry(p)

NextSpot == \E p \in Procs : SpotRequests(p) \/ SpotSteps(p)
SpecSpot == Init /\ [][NextSpot]_vars

\* XP earned through awardXP (index.js) and redemptions by QR
RedeemRequests(p) ==
  \/ \E u \in {"u1", "u2"} : awardXP(p, u, u, 100)
  \/ \E caller \in {"u1", "u2", "u0", ""}, qr \in QrCodes : redeemByQR(p, caller, qr)

RedeemSteps(p) ==
  \/ awardXP_get(p)
  \/ awardXP_commit(p)
  \/ redeemByQR_existing(p)
  \/ redeemByQR_user(p)
  \/ redeemByQR_get(p)
  \/ redeemByQR_commit(p)
  \/ TxRetry(p)

NextRedeem == \E p \in Procs : RedeemRequests(p) \/ RedeemSteps(p)
InitRedeem == Init /\ build = "monolith"
SpecRedeem == InitRedeem /\ [][NextRedeem]_vars

\* a redemption by u1 and its validation by the sponsor's owner or by others
ValidateRequests(p) ==
  \/ \E fmt \in {"deeplink", "other"} :
        redeemByQR(p, "u1", [fmt |-> fmt, id |-> "r1", len |-> 20])
  \/ \E caller \in {"sp1", "u2", ""}, code \in RedemptionCodes :
        validateRedemption(p, caller, code)

ValidateSteps(p) ==
  \/ redeemByQR_existing(p)
  \/ redeemByQR_user(p)
  \/ redeemByQR_get(p)
  \/ redeemByQR_commit(p)
  \/ validateRedemption_update(p)

NextValidate == \E p \in Procs : ValidateRequests(p) \/ ValidateSteps(p)
SpecValidate == InitRedeem /\ [][NextValidate]_vars

\* the codes returned to callers so far
ReturnedQr == {proc[q].qr : q \in Procs} \ {NoQr}

\* sponsor QR codes: issue, rotation, migration, validation
QrRequests(p) ==
  \/ \E caller \in {"sp1", "u1", ""} : generateSponsorQR(p, caller)
  \/ \E caller \in {"sp1", "u1", ""} : regenerateSponsorQR(p, caller)
  \/ \E caller \in {"admin", "u1", ""} : initializeSponsorQRSecrets(p, caller)
  \/ \E caller \in {"u1", ""}, qrCode \in ReturnedQr \cup {RewardQr("r1")} :
        validateQRCode(p, caller, qrCode)

QrSteps(p) ==
  \/ generateQRDataForSponsor_get(p)
  \/ generateQRDataForSponsor_init(p)
  \/ generateQRDataForSponsor_sign(p)
  \/ initializeSponsorQRSecrets_commit(p)

NextQr == \E p \in Procs : QrRequests(p) \/ QrSteps(p)
SpecQr == InitRedeem /\ [][NextQr]_vars

\* concurrent generateSponsorQR calls alone
NextQrGen ==
  \E p \in Procs :
     \/ \E caller \in {"sp1", "u1", ""} : generateSponsorQR(p, caller)
     \/ generateQRDataForSponsor_get(p)
     \/ generateQRDataForSponsor_init(p)
     \/ generateQRDataForSponsor_sign(p)
SpecQrGen == InitRedeem /\ [][NextQrGen]_vars

\* adjustUserXP of both builds, by admins and others, among XP awards
AdjustRequests(p) ==
  \/ xpm_awardXP(p, "u1", "VISIT_SPOT", 50, "s1", "")
  \/ awardXP(p, "u2", "u1", 70)
  \/ adminGrantXP(p, "u2", "u1", 100)
  \/ \E caller \in {"admin", "u2", ""}, adjustment \in {-1000000, 100} :
        xpm_adjustUserXP(p, caller, "u1", adjustment)
  \/ \E caller \in {"admin", "u2", ""}, xpAmount \in {-1000000, 100} :
        adjustUserXP(p, caller, "u1", xpAmount, "ADJUSTMENT")
  \/ adjustUserXP(p, "u2", "", 100, "ADJUSTMENT")

AdjustSteps(p) ==
  \/ xpm_awardUserXP_get(p)
  \/ xpm_awardUserXP_commit(p)
  \/ xpm_adjustUserXP_get(p)
  \/ xpm_adjustUserXP_commit(p)
  \/ adjustUserXP_get(p)
  \/ adjustUserXP_commit(p)
  \/ adminGrantXP_update(p)
  \/ awardXP_get(p)
  \/ awardXP_commit(p)
  \/ TxRetry(p)

NextAdjust == \E p \in Procs : AdjustRequests(p) \/ AdjustSteps(p)
SpecAdjust == Init /\ [][NextAdjust]_vars

\* XP changes large enough to cross a level boundary of either level formula
LevelRequests(p) ==
  \/ xpm_awardXP(p, "u1", "COMPLETE_CHALLENGE", 200, "", "c1")
  \/ \E adjustment \in {-100, 600} : xpm_adjustUserXP(p, "admin", "u1", adjustment)
  \/ \E xpAmount \in {-100, 600} : adjustUserXP(p, "admin", "u1", xpAmount, "ADJUSTMENT")
  \/ adminGrantXP(p, "u2", "u1", 600)
  \/ awardXP(p, "u2", "u1", 600)

LevelSteps(p) ==
  \/ xpm_awardUserXP_get(p)
  \/ xpm_awardUserXP_commit(p)
  \/ xpm_adjustUserXP_get(p)
  \/ xpm_adjustUserXP_commit(p)
  \/ adjustUserXP_get(p)
  \/ adjustUserXP_commit(p)
  \/ adminGrantXP_update(p)
  \/ awardXP_get(p)
  \/ awardXP_commit(p)
  \/ TxRetry(p)

NextLevel == \E p \in Procs : LevelRequests(p) \/ LevelSteps(p)
SpecLevel == Init /\ [][NextLevel]_vars

\* the trust ledger: updateUserTrustScore applied to stored user documents,
\* and the migration cleanup.  The stored trust fields of u1 are drawn from
\* bounded sets: a trustScore in hundredths (0 = 0.0, 100 = 1.0), and
\* submission counters below the shadow-ban minimum of five submissions.
TrustScores == {0, 4, 50, 98, 100}
TrustCounters == {<<0, 0>>, <<3, 3>>, <<4, 0>>, <<4, 3>>, <<4, 4>>}
InitTrust ==
  /\ InitOther
  /\ \E t \in TrustScores, c \in TrustCounters :
        users = [u \in UserIds |->
                   IF u = "u0" THEN NoUser
                   ELSE IF u = "u2" THEN NewUser
                   ELSE [NewUser EXCEPT !.trustScore = t, !.spotSubmissions = c[1],
                                        !.spotRejectedCount = c[2]]]
  /\ xpTransactions = <<>>
  /\ spots = [s \in SpotIds |-> NoSpot]
  /\ verificationLogs = 0

TrustRequests(p) ==
  \/ \E u \in {"u1", "u0"}, status \in Statuses : updateUserTrustScore(p, u, status)
  \/ \E caller \in {"root", "admin", ""} : cleanupMigration(p, caller)

TrustSteps(p) ==
  \/ updateUserTrustScore_get(p)
  \/ updateUserTrustScore_commit(p)
  \/ cleanupMigration_users(p)
  \/ TxRetry(p)

NextTrust == \E p \in Procs : TrustRequests(p) \/ TrustSteps(p)
SpecTrust == InitTrust /\ [][NextTrust]_vars

\* a submitter with a moderation history: u1 created the spots of
\* PriorSpotIds, verifySpotSubmissionNew decided PENDING for each of them
\* (one verification log and one counted submission each), and an admin
\* rejected each of them through verifySpotSubmission (one more log each);
\* in the modular build handleSpotVerificationUpdate logged each denial.
PriorSpotIds == {"o1", "o2", "o3", "o4"}
PriorSpotOrder == <<"o1", "o2", "o3", "o4">>
InitShadowBan ==
  /\ InitOther
  /\ users = [u \in UserIds |->
       IF u = "u0" THEN NoUser
       ELSE IF u = "u2" THEN NewUser
       ELSE [NewUser EXCEPT !.spotSubmissions = Cardinality(PriorSpotIds)]]
  /\ spots = [s \in SpotIds \cup PriorSpotIds |->
       IF s \in SpotIds THEN NoSpot
       ELSE [NoSpot EXCEPT !.exists = TRUE, !.createdBy = "u1",
                           !.verificationStatus = "REJECTED", !.reasons = "scored",
                           !.xpDenied = (build = "modular")]]
  /\ xpTransactions =
       IF build = "modular"
       THEN [i \in 1..Len(PriorSpotOrder) |->
               LedgerEntry("u1", "SPOT_REJECTED", 0 - 100, "DENIAL",
                           PriorSpotOrder[i], "", 0, 0)]
       ELSE <<>>
  /\ verificationLogs = 2 * Cardinality(PriorSpotIds)

SpecShadowBan == InitShadowBan /\ [][NextSpot]_vars

\* concurrent verification decisions for spots of u1, nothing else running
NextTrustRace ==
  \E p \in Procs :
     \/ \E status \in {"AUTO_APPROVED", "REJECTED", "PENDING"} :
           updateUserTrustScore(p, "u1", status)
     \/ updateUserTrustScore_get(p)
     \/ updateUserTrustScore_commit(p)
     \/ TxRetry(p)
InitTrustRace == InitTrust /\ build = "modular" /\ users["u1"].trustScore = 98
SpecTrustRace == InitTrustRace /\ [][NextTrustRace]_vars

\* automatic verification of a spot whose creation event is delivered again
NextRedeliver ==
  \/ createSpot("s1", "u1")
  \/ redeliverCreated("s1")
  \/ \E p \in Procs :
        \/ \E e \in Events, outcome \in VerificationOutcomes \cup {"error"} :
              verifySpotSubmissionNew(p, e, outcome)
        \/ updateSpotVerification(p)
        \/ \E fails \in BOOLEAN : updateSpotVerification_log(p, fails)
        \/ updateUserTrustScore_get(p)
        \/ updateUserTrustScore_commit(p)
        \/ verifySpotSubmissionNew_catch(p)
        \/ TxRetry(p)
SpecRedeliver == Init /\ [][NextRedeliver]_vars

\* moderation of a spot: automatic verification, admin verification and
\* reports by other users
ModerationRequests(p) ==
  \/ createSpot("s1", "u1")
  \/ \E approved \in BOOLEAN : verifySpotSubmission(p, "admin", "s1", approved)
  \/ \E caller \in {"u2", "u0", "u1"} : reportSpot(p, caller, "s1", "FAKE")

ModerationSteps(p) ==
  \/ \E e \in Events, outcome \in VerificationOutcomes \cup {"error"} :
        verifySpotSubmissionNew(p, e, outcome)
  \/ updateSpotVerification(p)
  \/ \E fails \in BOOLEAN : updateSpotVerification_log(p, fails)
  \/ updateUserTrustScore_get(p)
  \/ updateUserTrustScore_commit(p)
  \/ verifySpotSubmissionNew_catch(p)
  \/ reportSpot_add(p)
  \/ checkSpotForAutoFlag(p)

NextModeration == \E p \in Procs : ModerationRequests(p) \/ ModerationSteps(p)
SpecModeration == Init /\ [][NextModeration]_vars

\* scoring of new spots.  The new spot was created at NewSpotCreatedAt (ms);
\* the previous submission 30 s, 60 s, 2 min or 10 min earlier, at a distance
\* that is plausible, a teleport or too fast.
NewSpotCreatedAt == 1000000
RecentSubmissionsInputs ==
  {<<>>} \cup {<<[id |-> "o1", createdAt |-> NewSpotCreatedAt - d[1], distance |-> d[2]]>> :
                 d \in {<<30000, 0>>, <<60000, 0>>, <<120000, 20000>>,
                        <<600000, 40000>>, <<600000, 100>>}}
LocationInputs ==
  [id : {"s1"}, createdAt : {NewSpotCreatedAt}, isMockLocation : BOOLEAN,
   accuracy : {0, 15, 40, 80, 150}]
PhotoInputs ==
  [hasImage : BOOLEAN, hash : {0, 1},
   exif : {[present |-> FALSE, recent |-> FALSE, gps |-> ""],
           [present |-> TRUE, recent |-> TRUE, gps |-> "match"],
           [present |-> TRUE, recent |-> FALSE, gps |-> "mismatch"],
           [present |-> TRUE, recent |-> TRUE, gps |-> ""]}]
\* results of the three other checks: clean, low, or flagged
OtherCheckResults ==
  {CheckResult(100, {}), CheckResult(50, {}), CheckResult(0, {"hard_stop"})}

\* one spot is scored in each behaviour
NextScore ==
  \/ /\ calls = 0
     /\ \E spotData \in LocationInputs, recent \in RecentSubmissionsInputs, fails \in BOOLEAN :
           performSpotVerification(1, spotData, {}, recent, fails)
  \/ \E spotData \in PhotoInputs, otherHashes \in {{}, {1}}, fails \in BOOLEAN :
        performSpotVerification_photo(1, spotData, otherHashes, fails)
  \/ \E d, t, c \in OtherCheckResults : performSpotVerification_total(1, d, t, c, {})
InitScore == Init /\ build = "modular" /\ rewards["r1"].xpRequired = 0
SpecScore == InitScore /\ [][NextScore]_vars

\* scoring of a spot by the creation trigger: the checks query the spots
\* collection, in which the created document is stored.  The new spot s1 is
\* at position 0; the other stored spots are an earlier spot of u1 of 30 s
\* ago, a spot of u2 with the same photo and title 10 m away, a spot of u1 of
\* 25 hours ago 60 m away, a spot of u1 of an hour ago 20 m away.
StoredSpots ==
  {[id |-> "o1", createdBy |-> "u1", createdAt |-> NewSpotCreatedAt - 30000,
    pos |-> 5000, hash |-> 2, title |-> "b"],
   [id |-> "o2", createdBy |-> "u2", createdAt |-> NewSpotCreatedAt - 600000,
    pos |-> 10, hash |-> 1, title |-> "a"],
   [id |-> "o3", createdBy |-> "u1", createdAt |-> NewSpotCreatedAt - 90000000,
    pos |-> 60, hash |-> 3, title |-> "c"],
   [id |-> "o4", createdBy |-> "u1", createdAt |-> NewSpotCreatedAt - 3600000,
    pos |-> 20, hash |-> 4, title |-> "d"]}
TextInputs ==
  {[titleLen |-> 40, spam |-> FALSE, descLen |-> 50, profane |-> FALSE],
   [titleLen |-> 3, spam |-> FALSE, descLen |-> 0, profane |-> TRUE],
   [titleLen |-> 120, spam |-> TRUE, descLen |-> 600, profane |-> TRUE]}
NewSpots ==
  [id : {"s1"}, createdBy : {"u1", "u0"}, createdAt : {NewSpotCreatedAt}, pos : {0},
   isMockLocation : {FALSE}, accuracy : {15, 150},
   hasImage : BOOLEAN, hash : {1}, title : {"a"},
   exif : {[present |-> FALSE, recent |-> FALSE, gps |-> ""]},
   text : TextInputs, category : {"CAFE", ""}]
\* the document of the new spot as stored
StoredDoc(spotData) ==
  [id |-> spotData.id, createdBy |-> spotData.createdBy, createdAt |-> spotData.createdAt,
   pos |-> spotData.pos, hash |-> spotData.hash, title |-> spotData.title]
\* the spots collection when the trigger of spotData runs
SpotsCollection(spotData, others) == others \cup {StoredDoc(spotData)}
\* Date.now() in the trigger, and the midnight before
VerifyNow == NewSpotCreatedAt + 2000
TodayStart == NewSpotCreatedAt - 7200000

\* what checkDuplicateSpots, checkUserTrust and checkContentQuality read
SeenByOtherChecks(spotData, others) ==
  (IF \A d \in others : Dist(d.pos, spotData.pos) > 111
   THEN {"no_nearby_spots"} ELSE {})
  \cup (LET userData == users[spotData.createdBy]
        IN IF userData.exists /\ userData.trustScore = 100
              /\ userData.spotSubmissions = 0 /\ ~userData.isShadowBanned
           THEN {"trust_100_no_submissions"} ELSE {})
  \cup (IF spotData.text = [titleLen |-> 40, spam |-> FALSE, descLen |-> 50,
                            profane |-> FALSE] /\ spotData.category = "CAFE"
        THEN {"content_of_example"} ELSE {})

NextVerify ==
  \/ /\ calls = 0
     /\ \E spotData \in NewSpots, others \in SUBSET StoredSpots :
           performSpotVerification(1, spotData, SpotsCollection(spotData, others),
             recentSubmissionsOf(SpotsCollection(spotData, others), spotData, VerifyNow),
             FALSE)
  \/ performSpotVerification_photo(1, proc[1].spotData,
        otherHashesOf(proc[1].collection, proc[1].spotData), FALSE)
  \/ \E accountOld \in BOOLEAN, fails \in {"", "today"} :
        LET spotData == proc[1].spotData
            collection == proc[1].collection
        IN performSpotVerification_total(1,
             checkDuplicateSpots(spotData, collection, FALSE),
             checkUserTrust(users[spotData.createdBy], accountOld,
               todaySubmissionsOf(collection, spotData.createdBy, TodayStart), fails),
             checkContentQuality(spotData),
             SeenByOtherChecks(spotData, collection \ {StoredDoc(spotData)}))
InitVerify == InitTrust /\ build = "modular" /\ rewards["r1"].xpRequired = 0
SpecVerify == InitVerify /\ [][NextVerify]_vars

\* awards and the limit checks for one user and one action.  The user's
\* xpHistory subcollection holds no document, an old one, or ones of today.
HistoryInputs ==
  SUBSET {[action |-> "VISIT_SPOT", awardedAt |-> t] : t \in {0 - 100, 0 - 2, 0 - 1}}
InitLimits ==
  /\ InitOther
  /\ \E h \in HistoryInputs :
        users = [u \in UserIds |-> IF u = "u0" THEN NoUser
                                   ELSE IF u = "u1" THEN [NewUser EXCEPT !.history = h]
                                   ELSE NewUser]
  /\ xpTransactions = <<>>
  /\ spots = [s \in SpotIds |-> NoSpot]
  /\ verificationLogs = 0
  /\ rewards["r1"].xpRequired = 0
NextLimits ==
  \E p \in Procs :
     \/ \E spotId \in {"s1", "s2", "s3"} : xpm_awardXP(p, "u1", "VISIT_SPOT", 50, spotId, "")
     \/ awardXP(p, "u1", "u1", 50)
     \/ checkCooldown(p, "u1", "VISIT_SPOT")
     \/ checkDailyLimit(p, "u1", "VISIT_SPOT")
     \/ xpm_awardUserXP_get(p)
     \/ xpm_awardUserXP_commit(p)
     \/ awardXP_get(p)
     \/ awardXP_commit(p)
     \/ TxRetry(p)
SpecLimits == InitLimits /\ [][NextLimits]_vars

\* badge checks for u1 after awards that brought the XP and level given
InitBadges ==
  /\ InitOther
  /\ build = "modular"
  /\ rewards["r1"].xpRequired = 0
  /\ \E spotsDiscovered \in {0, 1} :
        users = [u \in UserIds |->
                   IF u = "u0" THEN NoUser
                   ELSE IF u = "u1"
                   THEN [NewUser EXCEPT !.spotsDiscovered = spotsDiscovered]
                   ELSE NewUser]
  /\ xpTransactions = <<>>
  /\ spots = [s \in SpotIds |-> NoSpot]
  /\ verificationLogs = 0
NextBadges ==
  \E p \in Procs :
     \/ \E xp \in {50, 100}, level \in {1, 2} : checkAndUnlockBadges(p, "u1", xp, level)
     \/ checkAndUnlockBadges_get(p)
     \/ \E badgeId \in BadgeIds, fails \in BOOLEAN : unlockBadge(p, badgeId, fails)
SpecBadges == InitBadges /\ [][NextBadges]_vars

\* likes of the spot s1, which holds no like or the like of u1
InitLikes ==
  /\ InitOther
  /\ build = "modular"
  /\ rewards["r1"].xpRequired = 0
  /\ users = [u \in UserIds |-> IF u = "u0" THEN NoUser ELSE NewUser]
  /\ xpTransactions = <<>>
  /\ \E likes \in {{}, {"u1"}} :
        spots = [s \in SpotIds |->
                   [NoSpot EXCEPT !.exists = TRUE, !.createdBy = "u2",
                                  !.verificationStatus = "APPROVED",
                                  !.likes = likes, !.likeCount = Cardinality(likes)]]
  /\ verificationLogs = 0
NextLikes ==
  \E p \in Procs :
     \/ \E caller \in {"u1", "u2", ""}, spotId \in {"s1", "sX", ""} :
           toggleLike(p, caller, spotId)
     \/ toggleLike_get(p)
     \/ toggleLike_commit(p)
     \/ TxRetry(p)
SpecLikes == InitLikes /\ [][NextLikes]_vars

\* ------------------------------------------------------------ ledger views
XpActions == {"VISIT_SPOT", "RATE_SPOT", "COMPLETE_CHALLENGE", "SPOT_APPROVED"}

AwardEntries(u) ==
  {i \in DOMAIN xpTransactions :
     xpTransactions[i].type = "AWARD" /\ xpTransactions[i].userId = u}

\* AWARD entries of user u for action a on resource r (a spot or a challenge)
AwardEntriesFor(u, a, r) ==
  {i \in AwardEntries(u) :
     /\ xpTransactions[i].action = a
     /\ (xpTransactions[i].spotId = r \/ xpTransactions[i].challengeId = r)}

\* AWARD entries of user u for action a on spot s
AwardEntriesForSpot(u, a, s) ==
  {i \in AwardEntries(u) :
     xpTransactions[i].action = a /\ xpTransactions[i].spotId = s}

RECURSIVE SumAmounts(_)
SumAmounts(P) ==
  IF P = {} THEN 0
  ELSE LET q == CHOOSE x \in P : TRUE IN proc[q].amount + SumAmounts(P \ {q})

\* awardUserXP invocations on user u that have not committed yet
AwardsInFlight(u) ==
  {q \in Procs : proc[q].op = "xpm_awardXP" /\ proc[q].user = u
                 /\ proc[q].pc \in {"tx_get", "tx_commit"}}

\* ------------------------------------------------------------ claims
\* C2: awardXP called twice in sequence with the same user, action and
\* resource id (a spot id or a challenge id) leaves exactly one AWARD ledger
\* entry for that key.
C2_OneAwardPerKeySequential ==
  \A u \in UserIds, a \in XpActions, r \in SpotIds \cup ChallengeIds :
     Cardinality(AwardEntriesFor(u, a, r)) <= 1

\* C3: under every interleaving of concurrent awardXP calls with the same
\* user, action and spot id, at most one AWARD entry is created for the key.
C3_OneAwardPerSpotKeyConcurrent ==
  \A u \in UserIds, a \in XpActions, s \in SpotIds :
     Cardinality(AwardEntriesForSpot(u, a, s)) <= 1

\* C4: concurrent awardUserXP calls on one user lose no update: the user's
\* xpPoints plus the amounts of the calls still in flight equals the sum of
\* the amounts of all calls made, and the AWARD entries plus the calls in
\* flight number as many as the calls made; when no call is in flight,
\* xpPoints is the initial 0 plus a1+...+an and there are n AWARD entries.
C4_NoLostAward ==
  \A u \in UserIds :
     users[u].exists =>
       /\ users[u].xpPoints + SumAmounts(AwardsInFlight(u)) = issued[u].sum
       /\ Cardinality(AwardEntries(u)) + Cardinality(AwardsInFlight(u)) = issued[u].n

\* C4 witness: an award to the user has committed while another award call
\* on the same user, which had read the user before that commit, was waiting
\* to commit.
C4_Witness ==
  \E u \in UserIds, q \in Procs :
     /\ proc[q].op = "xpm_awardXP" /\ proc[q].user = u
     /\ proc[q].pc = "tx_commit" /\ proc[q].stale
     /\ Cardinality(AwardEntries(u)) >= 1
     /\ users[u].xpPoints > 0

\* the user's ledger entries replayed in order from zero
RECURSIVE Replay(_, _)
Replay(u, n) ==
  IF n = 0 THEN 0
  ELSE Replay(u, n - 1)
       + (IF xpTransactions[n].userId = u THEN xpTransactions[n].amount ELSE 0)

\* C1: for every user, replaying the user's xpTransactions entries in order
\* from zero, adding each entry's amount, gives the user's current xpPoints.
C1_LedgerReplaysToXpPoints ==
  \A u \in UserIds :
     users[u].exists => Replay(u, Len(xpTransactions)) = users[u].xpPoints

\* p's step writes the user document p has read
WritesUserRead(p) ==
  /\ proc[p].pc \in {"tx_commit", "update"}
  /\ proc'[p] # proc[p]
  /\ users'[proc[p].user] # users[proc[p].user]

\* C5: every entry point that changes a user's XP writes the user document
\* in one atomic unit with its read: at the write, the XP balance the
\* operation read is still the stored one, so no other operation's XP change
\* is overwritten.
C5_XpReadAndWriteAtomic ==
  [][\A p \in Procs :
       WritesUserRead(p) =>
         /\ proc[p].snap.xpPoints = users[proc[p].user].xpPoints
         /\ proc[p].snap.xp = users[proc[p].user].xp]_vars

\* the SPOT_APPROVED AWARD entries of spot s
SpotApprovedEntries(s) ==
  {i \in DOMAIN xpTransactions :
     /\ xpTransactions[i].type = "AWARD"
     /\ xpTransactions[i].action = "SPOT_APPROVED"
     /\ xpTransactions[i].spotId = s}

\* C6: over any sequence of verification status changes of a spot, XP for
\* the spot is released at most once: at most one SPOT_APPROVED AWARD entry
\* exists per spot.
C6_XpReleasedAtMostOncePerSpot ==
  \A s \in SpotIds : Cardinality(SpotApprovedEntries(s)) <= 1

\* C7: a spot's xpReleased flag is true only when the credit has been made
\* (one SPOT_APPROVED AWARD entry for the spot's creator), and the release
\* happens exactly once.
C7_ReleasedFlagOnlyWithOneCredit ==
  \A s \in SpotIds :
     spots[s].xpReleased =>
       /\ Cardinality(SpotApprovedEntries(s)) = 1
       /\ \A i \in SpotApprovedEntries(s) : xpTransactions[i].userId = spots[s].createdBy

\* C8: a redeemByQR call that finds an un-used redemption of the same
\* reward by the same user fails with AlreadyExists.
C8_SecondRedeemFailsAlreadyExists ==
  \A p \in Procs :
     (proc[p].op = "redeemByQR" /\ proc[p].pc = "idle" /\ proc[p].saw)
        => proc[p].ret = HttpsError("already-exists")

\* C9: under every interleaving of redeemByQR calls by one user for one
\* reward, the user never holds two un-used redemption records of the reward.
C9_AtMostOneLiveRedemption ==
  \A u \in UserIds, r \in RewardIds : Cardinality(LiveRedemptions(u, r)) <= 1

\* the redemption records of reward r
RedemptionsOf(r) == {i \in DOMAIN redemptions : redemptions[i].rewardId = r}

\* C10: for a reward with a redemption cap, redeemed by different users
\* only, currentRedemptions never exceeds maxRedemptions.
C10_CapNeverExceeded ==
  \A r \in RewardIds :
     (/\ rewards[r].maxRedemptions # 0
      /\ \A i, j \in RedemptionsOf(r) :
            i # j => redemptions[i].userId # redemptions[j].userId)
        => rewards[r].currentRedemptions <= rewards[r].maxRedemptions

\* C11: under every interleaving of validateRedemption calls, the used flag
\* of a redemption record (with usedAt and validatedBy) is written at most once.
C11_UsedWrittenOnce ==
  \A i \in DOMAIN redemptions : redemptions[i].usedAt <= 1

\* C16: a validateRedemption call by an authenticated user who does not own
\* the redemption's sponsor fails with PermissionDenied.
C16_NotOwnerPermissionDenied ==
  \A p \in Procs :
     (proc[p].op = "validateRedemption" /\ proc[p].pc = "idle"
        /\ proc[p].note = "not-owner")
        => proc[p].ret = HttpsError("permission-denied")

\* the record a step appended to `redemptions`, as a set (empty: none)
NewRedemptions ==
  {i \in DOMAIN redemptions' : i > Len(redemptions)}

C13_ValidationFollowsVersion ==
  \A p \in Procs :
     (proc[p].op = "validateQRCode" /\ proc[p].pc = "idle")
        => /\ proc[p].note = "current-version" => proc[p].ret = Ok("valid")
           /\ proc[p].note = "earlier-version" => proc[p].ret # Ok("valid")

\* C14: no step lowers a sponsor's stored qrVersion.
C14_QrVersionMonotonic ==
  [][\A s \in SponsorIds : sponsors'[s].qrVersion >= sponsors[s].qrVersion]_vars

\* C15: every code returned by generateSponsorQR is signed with the secret
\* that is stored for its sponsor.
C15_ReturnedCodeSignedWithStoredSecret ==
  \A p \in Procs :
     (proc[p].op = "generateSponsorQR" /\ proc[p].pc = "idle" /\ proc[p].qr # NoQr)
        => proc[p].qr.sig[1] = sponsors[proc[p].qr.sid].qrSecret

\* C17: no user's stored XP (xpPoints, xp) is ever negative.
C17_XpNeverNegative ==
  \A u \in UserIds : users[u].xpPoints >= 0 /\ users[u].xp >= 0

\* an adjustment of -1000000 was applied to a user with positive XP and the
\* stored XP is 0
C17_Witness ==
  \E i \in DOMAIN xpTransactions :
     /\ xpTransactions[i].action = "ADMIN_ADJUSTMENT"
     /\ xpTransactions[i].amount = -1000000
     /\ xpTransactions[i].previousXP > 0
     /\ xpTransactions[i].newXP = 0
     /\ users[xpTransactions[i].userId].xpPoints = 0

\* the adjustUserXP invocations of both builds
IsAdjust(r) == r.op \in {"adjustUserXP", "xpm_adjustUserXP"}

\* C18 as stated: adjustUserXP without caller identity returns
\* Unauthenticated, by a caller who is not an admin PermissionDenied, and no
\* step of such a call changes a user document or the ledger.
C18_AdjustRequiresAdmin ==
  /\ [](\A p \in Procs :
          (IsAdjust(proc[p]) /\ proc[p].pc = "idle")
             => /\ proc[p].note = "anonymous" => proc[p].ret = HttpsError("unauthenticated")
                /\ proc[p].note = "non-admin" => proc[p].ret = HttpsError("permission-denied"))
  /\ [][\A p \in Procs :
          (IsAdjust(proc'[p]) /\ proc'[p] # proc[p]
             /\ proc'[p].note \in {"anonymous", "non-admin"})
             => users' = users /\ xpTransactions' = xpTransactions]_vars

\* C18 amended: adjustUserXP without caller identity returns Unauthenticated,
\* a request that names its target user, made by a caller who is not an
\* admin, returns PermissionDenied, and no step of a call by either changes a
\* user document or the ledger.
C18_AdjustRequiresAdminWellFormed ==
  /\ [](\A p \in Procs :
          (IsAdjust(proc[p]) /\ proc[p].pc = "idle")
             => /\ proc[p].note = "anonymous" => proc[p].ret = HttpsError("unauthenticated")
                /\ (proc[p].note = "non-admin" /\ proc[p].user # "")
                     => proc[p].ret = HttpsError("permission-denied"))
  /\ [][\A p \in Procs :
          (IsAdjust(proc'[p]) /\ proc'[p] # proc[p]
             /\ proc'[p].note \in {"anonymous", "non-admin"})
             => users' = users /\ xpTransactions' = xpTransactions]_vars

\* a non-admin's adjustUserXP was refused while the target user holds XP
C18_Witness ==
  /\ \E p \in Procs :
        /\ IsAdjust(proc[p]) /\ proc[p].pc = "idle" /\ proc[p].note = "non-admin"
        /\ proc[p].ret = HttpsError("permission-denied")
  /\ users["u1"].xpPoints > 0

\* the XP a reader of the user document takes (xpPoints || xp || 0)
StoredXp(u) == JsOr(users[u].xpPoints, JsOr(users[u].xp, 0))

\* C19: one of the level functions of the code gives every user's stored
\* level from the user's stored XP.
C19_LevelIsFunctionOfXp ==
  \/ \A u \in UserIds : users[u].exists => users[u].level = calculateLevel(StoredXp(u))
  \/ \A u \in UserIds : users[u].exists => users[u].level = xpm_calculateLevel(StoredXp(u))

\* C20: awardXP for a user id without user document fails with NotFound.
C20_AwardAbsentUserNotFound ==
  \A p \in Procs :
     (proc[p].op \in {"xpm_awardXP", "awardXP"} /\ proc[p].pc = "idle"
        /\ proc[p].note = "user-absent")
        => proc[p].ret = HttpsError("not-found")

\* C21: isShadowBanned is a one-way flag: once it is true for a user, no
\* operation (trust updates for later approvals, migration and cleanup
\* included) sets it back to false or removes it.
C21_ShadowBanIsOneWay ==
  [][\A u \in UserIds : users[u].isShadowBanned => users'[u].isShadowBanned]_vars

\* spots created by u, and those of them an admin or the verification rejected
SpotsOf(u) == {s \in DOMAIN spots : spots[s].exists /\ spots[s].createdBy = u}
RejectedSpotsOf(u) == {s \in SpotsOf(u) : spots[s].verificationStatus = "REJECTED"}
\* no invocation is running and no trigger event is waiting
Quiescent == events = EmptyBag /\ \A p \in Procs : proc[p].pc = "idle"

\* C22: once every verification decision (automatic or by an admin) has been
\* recorded, a user with at least 5 counted submissions of which at least
\* 0.7 are rejected spots has isShadowBanned true.
C22_BannedAtRejectionThreshold ==
  \A u \in UserIds :
     (/\ Quiescent
      /\ users[u].exists
      /\ users[u].spotSubmissions >= 5
      /\ Cardinality(RejectedSpotsOf(u)) * 10
            >= ShadowBanRejectionTenths * users[u].spotSubmissions)
     => users[u].isShadowBanned

\* the step in which p's updateUserTrustScore transaction commits
TrustCommit(p) ==
  /\ proc[p].op \in {"verifySpotSubmissionNew", "updateUserTrustScore"}
  /\ proc[p].pc = "tx_commit"
  /\ proc'[p].pc = "idle"

\* C23: for every stored trustScore t (hundredths, t = 0 included)
\* updateUserTrustScore stores min(1, t + 0.02) for AUTO_APPROVED,
\* max(0, t - 0.05) for REJECTED and t for any other outcome.
C23_TrustScoreStep ==
  [][\A p \in Procs :
       TrustCommit(p) =>
         LET u == proc[p].user
             t == users[u].trustScore
             status == proc[p].action
         IN users'[u].trustScore =
              IF status = "AUTO_APPROVED" THEN Min(100, t + 2)
              ELSE IF status = "REJECTED" THEN Max(0, t - 5)
              ELSE t]_vars

\* C24: two verification decisions for the same user processed concurrently
\* are both counted: every commit of updateUserTrustScore adds exactly 1 to
\* the spotSubmissions stored at that moment, a decision for an existing user
\* ends only with such a commit, and the shadow-ban test holds of the
\* counters as written, those of the earlier commit included.
C24_BothDecisionsCounted ==
  [][\A p \in Procs :
       LET u == proc[p].user IN
         /\ TrustCommit(p) =>
              /\ users'[u].spotSubmissions = users[u].spotSubmissions + 1
              /\ users'[u].spotRejectedCount =
                    users[u].spotRejectedCount
                      + (IF proc[p].action = "REJECTED" THEN 1 ELSE 0)
              /\ (users'[u].spotSubmissions >= 5
                    /\ users'[u].spotRejectedCount * 10
                          >= ShadowBanRejectionTenths * users'[u].spotSubmissions)
                   => users'[u].isShadowBanned
         /\ (proc[p].op = "updateUserTrustScore" /\ proc[p].pc # "idle"
               /\ proc'[p].pc = "idle" /\ users[u].exists)
              => TrustCommit(p)]_vars

\* two decisions for u1 ran concurrently, one transaction was run again, and
\* the ban rests on both: 3 submissions, all rejected, then 5 with 4 rejected
C24_Witness ==
  /\ \E p, q \in Procs :
        /\ proc[p].op = "updateUserTrustScore" /\ proc[p].pc = "idle"
        /\ proc[p].note = "read"
        /\ proc[q].op = "updateUserTrustScore" /\ proc[q].pc = "idle"
        /\ proc[q].note = "read-again"
  /\ users["u1"].spotSubmissions = 5
  /\ users["u1"].spotRejectedCount = 4
  /\ users["u1"].isShadowBanned

\* C25: a verification outcome is persisted once per spot: a run of
\* verifySpotSubmissionNew that starts after an earlier run stored its
\* decision changes neither the spot's verification fields nor the
\* verification log nor the submitter's spotSubmissions.
C25_RedeliveryIsNoOp ==
  [][\A p \in Procs :
       (/\ proc[p].op = "verifySpotSubmissionNew"
        /\ proc[p].saw
        /\ proc'[p].pc # proc[p].pc)
       => /\ spots' = spots
          /\ verificationLogs' = verificationLogs
          /\ users'[proc[p].user].spotSubmissions = users[proc[p].user].spotSubmissions]_vars

\* C26: when a step of the automatic verification fails (also after the spot
\* document was updated), the error fallback leaves the spot PENDING with
\* the reason error_during_verification and with no XP released for it.
C26_ErrorFallbackLeavesPendingWithoutXp ==
  [][\A p \in Procs :
       (proc[p].pc = "error_update" /\ proc'[p].pc = "idle")
       => LET s == proc[p].spotId IN
            /\ spots'[s].verificationStatus = "PENDING"
            /\ spots'[s].reasons = "error_during_verification"
            /\ ~spots'[s].xpReleased]_vars

\* C27: once a spot's verificationStatus is REJECTED, or once its XP has been
\* released, no later operation changes its verificationStatus.
C27_StatusFinalOnceRejectedOrReleased ==
  [][\A s \in SpotIds :
       (spots[s].exists /\ (spots[s].verificationStatus = "REJECTED" \/ spots[s].xpReleased))
       => spots'[s].verificationStatus = spots[s].verificationStatus]_vars

\* a finished performSpotVerification
Scored(p) == proc[p].op = "performSpotVerification" /\ proc[p].pc = "idle"

\* C28: the status is FLAGGED exactly when at least one flag was raised
\* (whatever the score), otherwise AUTO_APPROVED exactly when the total score
\* is at least 80, otherwise PENDING.
C28_DecisionFromFlagsAndScore ==
  \A p \in Procs :
     Scored(p) =>
       LET vr == proc[p].vr IN
         /\ (vr.status = "FLAGGED") = (vr.flags # {})
         /\ (vr.status = "AUTO_APPROVED") = (vr.flags = {} /\ vr.score >= 80)
         /\ (vr.status = "PENDING") = (vr.flags = {} /\ vr.score < 80)

\* a flagged spot with a total of at least 80
C28_Witness ==
  \E p \in Procs :
     /\ Scored(p)
     /\ proc[p].vr.status = "FLAGGED"
     /\ proc[p].vr.score >= 80

\* C29: a new spot whose photo hash equals that of a different existing spot
\* gets photo score 0 with the duplicate_image flag and the status FLAGGED,
\* whatever its other fields (no read of the check failing).
C29_DuplicateImageFlagged ==
  \A p \in Procs :
     (/\ Scored(p)
      /\ "same_hash_as_other_spot" \in proc[p].vr.facts
      /\ "photo_read_failed" \notin proc[p].vr.facts)
     => /\ proc[p].vr.photo.score = 0
        /\ "duplicate_image" \in proc[p].vr.flags
        /\ proc[p].vr.status = "FLAGGED"

\* C30: when the submitter's previous submission was created less than 60
\* seconds earlier, the location check raises suspicious_movement and its
\* score is exactly 0, for every GPS accuracy and mock-location value (no
\* read of the check failing).
C30_TooFastScoresZero ==
  \A p \in Procs :
     (/\ proc[p].op = "performSpotVerification"
      /\ "previous_within_60s" \in proc[p].vr.facts
      /\ "location_read_failed" \notin proc[p].vr.facts)
     => /\ "suspicious_movement" \in proc[p].vr.location.flags
        /\ proc[p].vr.location.score = 0

\* C31: a user with trustScore 1.0 and no prior submissions creates a spot
\* with GPS accuracy 15 m, a photo with a unique hash, no nearby spots, a
\* 40-character title, a 50-character description and category CAFE; the
\* verification run by the creation trigger gives a score of at least 80, no
\* flags and the status AUTO_APPROVED.
C31_ExampleSpotAutoApproved ==
  \A p \in Procs :
     (/\ Scored(p)
      /\ {"accuracy_15", "no_earlier_submission", "photo_with_unique_hash",
          "no_nearby_spots", "trust_100_no_submissions", "content_of_example"}
           \subseteq proc[p].vr.facts)
     => /\ proc[p].vr.score >= 80
        /\ proc[p].vr.flags = {}
        /\ proc[p].vr.status = "AUTO_APPROVED"

\* the weighted sum of the five sub-scores of a finished scoring
WeightedSum(vr) ==
  30 * vr.location.score + 20 * vr.photo.score + 20 * vr.duplicate.score
    + 20 * vr.trust.score + 10 * vr.content.score

\* C32: each of the five sub-scores lies in [0,100] and the final score is
\* round(weighted sum / 100), the integer nearest to it (halves upwards), so
\* the final score lies in [0,100].
C32_ScoreIsRoundedWeightedSum ==
  \A p \in Procs :
     Scored(p) =>
       LET vr == proc[p].vr IN
         /\ \A c \in {vr.location, vr.photo, vr.duplicate, vr.trust, vr.content} :
               c.score \in 0..100
         /\ 100 * vr.score - 50 <= WeightedSum(vr)
         /\ WeightedSum(vr) < 100 * vr.score + 50
         /\ vr.score \in 0..100

\* a finished scoring whose weighted sum is rounded upwards
C32_Witness ==
  \E p \in Procs :
     /\ Scored(p)
     /\ WeightedSum(proc[p].vr) % 100 >= 50
     /\ proc[p].vr.trust.score = 98
     /\ proc[p].vr.score * 100 > WeightedSum(proc[p].vr)

\* C36: every operation credits and debits the same balance: in every
\* reachable state a user's xp field equals the user's xpPoints field.
C36_XpEqualsXpPoints ==
  \A u \in UserIds : users[u].exists => users[u].xp = users[u].xpPoints

\* C37: adminGrantXP and the callable awardXP leave the XP of another user
\* unchanged unless the caller is an admin.
C37_GrantRequiresAdmin ==
  [][\A p \in Procs :
       (/\ proc[p].op \in {"adminGrantXP", "awardXP"}
        /\ proc'[p].pc # proc[p].pc
        /\ proc[p].caller # ""
        /\ ~checkIsAdmin(proc[p].caller)
        /\ proc[p].caller # proc[p].user)
       => /\ users'[proc[p].user].xp = users[proc[p].user].xp
          /\ users'[proc[p].user].xpPoints = users[proc[p].user].xpPoints]_vars

\* C38: whenever verifySpotSubmission returns an error to its caller, the
\* spot's verificationStatus and the verification log are unchanged by the
\* call.
C38_ErrorMeansNoDecision ==
  [][\A p \in Procs :
       (/\ proc'[p] # proc[p]
        /\ proc'[p].op = "verifySpotSubmission"
        /\ proc'[p].pc = "idle"
        /\ ~proc'[p].ret.ok)
       => /\ \A s \in SpotIds :
               spots'[s].verificationStatus = spots[s].verificationStatus
          /\ verificationLogs' = verificationLogs]_vars

\* the reports of one reporter for one spot
ReportsOf(reporter, s) ==
  {i \in DOMAIN spotReports :
     spotReports[i].reportedBy = reporter /\ spotReports[i].spotId = s}

\* C39: under any sequence or interleaving of reportSpot calls there is at
\* most one report per (reporter, spot) pair.
C39_OneReportPerReporterAndSpot ==
  \A reporter \in UserIds, s \in SpotIds : Cardinality(ReportsOf(reporter, s)) <= 1

\* C33: once an XP award for an action has been made, checkCooldown returns
\* allowed = false with a positive remainingSeconds for every request made
\* within the cooldown of the rule after that award.  (Every request of a
\* behaviour is made within the cooldown after the behaviour's awards.)
C33_CooldownAfterAward ==
  \A p \in Procs :
     (proc[p].op = "checkCooldown" /\ proc[p].pc = "idle" /\ proc[p].note = "awarded")
        => proc[p].ret = Ok("not-allowed") /\ proc[p].n > 0

\* C34: the number of awards made to a user for an action within the day
\* never exceeds rule.maxDaily, and checkDailyLimit returns allowed = false
\* when the number of awards of the day has reached rule.maxDaily.
C34_DailyLimitHolds ==
  /\ AwardsMade("u1", "VISIT_SPOT") <= MaxDaily
  /\ \A p \in Procs :
        (proc[p].op = "checkDailyLimit" /\ proc[p].pc = "idle" /\ proc[p].n >= MaxDaily)
           => proc[p].ret = Ok("not-allowed")

\* C35: under any sequence or interleaving of checkAndUnlockBadges calls a
\* badge the user already holds is never written again: its earnedAt is
\* unchanged.
C35_HeldBadgeNeverRewritten ==
  [][\A u \in UserIds, b \in BadgeIds :
       users[u].badges[b] # 0 => users'[u].badges[b] = users[u].badges[b]]_vars

\* C40: starting from a state where likeCount equals the number of like
\* documents of the spot, any sequence or interleaving of toggleLike calls
\* keeps likeCount equal to the number of like documents and never negative.
C40_LikeCountMatchesLikes ==
  \A s \in SpotIds :
     /\ spots[s].likeCount = Cardinality(spots[s].likes)
     /\ spots[s].likeCount >= 0

\* a toggleLike transaction that read the spot before another one committed
\* is about to run again, while the spot holds one like
C40_Witness ==
  /\ \E p \in Procs :
        proc[p].op = "toggleLike" /\ proc[p].pc = "tx_commit" /\ proc[p].stale
  /\ \E q \in Procs :
        proc[q].op = "toggleLike" /\ proc[q].pc = "idle" /\ proc[q].ret.ok
  /\ spots["s1"].likeCount = 1

====
